---- MODULE Spec2Model ----
(***************************************************************************)
(* A model of app.py: the per-user position ledger                         *)
(* (user_scalping_positions and its on-disk snapshots) and the bounded     *)
(* time-series store (historical_data) with its delta calculator.          *)
(*                                                                         *)
(* Python dicts are modelled as functions whose DOMAIN is the set of keys  *)
(* present; lists and deques as sequences.  Timestamps are whole seconds.  *)
(***************************************************************************)
EXTENDS Integers, Sequences, FiniteSets, TLC

VARIABLES
    user_scalping_positions, \* {username: {date: [positions]}}
    files,                   \* user_data/<username>_<date>.json, by <<username, date>>
    today,                   \* date.today()
    session,                 \* the usernames holding a logged-in session cookie
    clock,                   \* get_mumbai_time().timestamp()
    op,                      \* the request handled last (what the client sent and got)
    pc,                      \* per request thread: the handler's position
    local,                   \* per request thread: the handler's local variables
    pre,                     \* the ledger when two overlapping requests arrived, and the two requests
    historical_data,         \* {index_name: {strike_type_key: deque(maxlen=600)}}
    appended,                \* per series key: every sample ever appended, in append order
    result,                  \* the get_change_data call just made: its arguments and what it returned
    previous_data,           \* {index_name: rows}: the rows chain_rows_diff sent last
    sent                     \* per viewer and index: every rows payload chain_rows_diff sent in full

vars == <<user_scalping_positions, files, today, session, clock, op, pc, local, pre,
          historical_data, appended, result, previous_data, sent>>

ledgerVars == <<user_scalping_positions, files, today, session>>
raceVars   == <<pc, local, pre>>
histVars   == <<historical_data, appended, result>>

----------------------------------------------------------------------------
(* Bounds of the model *)

MaxDay    == 2      \* trading days 1..MaxDay
MaxClock  == 2      \* ledger timestamps 0..MaxClock: the add requests of a run
MaxTicks  == 2      \* clock ticks of the time-series runs
MaxSamples == 3     \* samples appended to one series by the polling threads
MaxOverflow == 3    \* samples appended beyond the capacity of a series
MaxPositions == 3   \* positions held in memory, over all users and days
MaxLadder == 6      \* strikes of the option chains the strategy builder is run on
MaxPolls == 1       \* polls of the scalping page that find an option chain

----------------------------------------------------------------------------
(* Python dict helpers *)

EmptyDict == <<>>

Has(d, k) == k \in DOMAIN d

Put(d, k, v) == [x \in (DOMAIN d) \cup {k} |-> IF x = k THEN v ELSE d[x]]

\* The list under key k, an empty one when the key is missing.
Entry(d, k) == IF Has(d, k) THEN d[k] ELSE <<>>

----------------------------------------------------------------------------
(* Users and sessions *)

users == [admin |-> [role |-> "admin"],
          alice |-> [role |-> "user"]]

Users == DOMAIN users

is_logged_in(u) == u \in session

is_admin(u) == is_logged_in(u) /\ users[u].role = "admin"

Days == 1..MaxDay

----------------------------------------------------------------------------
(* The option chain a handler fetches from the brokerage API *)

LotSize == 75

\* An upstream snapshot: the optionsChain rows and the underlying value
\* (NoSpot when the response carries none).
NoSpot == -1

Row(k, t, l) == [strike_price |-> k, option_type |-> t, ltp |-> l]

FullChain ==
    [rows |-> {Row(100, "CE", 250), Row(100, "PE", 50),
               Row(200, "CE", 150), Row(200, "PE", 140),
               Row(300, "CE", 60),  Row(300, "PE", 240)},
     spot |-> 200]

EmptyChain == [rows |-> {}, spot |-> NoSpot]

Abs(x) == IF x < 0 THEN -x ELSE x

Min2(a, b) == IF a < b THEN a ELSE b

Max2(a, b) == IF a > b THEN a ELSE b

\* sorted(df["strike_price"].dropna().unique())
RECURSIVE SortedSeq(_)
SortedSeq(S) ==
    IF S = {} THEN <<>>
    ELSE LET m == CHOOSE x \in S : \A y \in S : x <= y
         IN  <<m>> \o SortedSeq(S \ {m})

strikes_of(chain) == SortedSeq({r.strike_price : r \in chain.rows})

\* spot_price: the underlying value, else the median strike of the ladder
\* (strikes_all[len(strikes_all)//2], zero-based), else 0.
spot_price_of(chain) ==
    LET strikes_all == strikes_of(chain)
    IN  IF chain.spot # NoSpot THEN chain.spot
        ELSE IF strikes_all # <<>> THEN strikes_all[(Len(strikes_all) \div 2) + 1]
        ELSE 0

\* min(strikes_all, key=lambda s: abs(s - spot_price)): the first strike at the
\* least distance; its zero-based index in the ladder.
atm_index_of(strikes_all, spot) ==
    IF strikes_all = <<>> THEN 0
    ELSE (CHOOSE i \in 1..Len(strikes_all) :
            /\ \A j \in 1..Len(strikes_all) :
                  Abs(strikes_all[i] - spot) <= Abs(strikes_all[j] - spot)
            /\ \A j \in 1..(i - 1) :
                  Abs(strikes_all[j] - spot) > Abs(strikes_all[i] - spot)) - 1

\* A slip the lower clamp could carry: max(..., 0) left out, so that an index
\* below zero counts from the end of the ladder.
strike_at_wrapping(strikes_all, atm_index, k) ==
    IF k >= 0 THEN strikes_all[Min2(atm_index + k, Len(strikes_all) - 1) + 1]
    ELSE strikes_all[((atm_index + k) % Len(strikes_all)) + 1]

\* strikes_all[min(atm_index + k, len(strikes_all)-1)] and
\* strikes_all[max(atm_index - k, 0)], zero-based in the source.
strike_at(strikes_all, atm_index, k) ==
    IF k >= 0 THEN strikes_all[Min2(atm_index + k, Len(strikes_all) - 1) + 1]
    ELSE strikes_all[Max2(atm_index + k, 0) + 1]

\* df[(strike_price == s) & (option_type == t)]["ltp"].values[0] if not empty else 0
ltp_of(chain, s, t) ==
    LET hit == {r \in chain.rows : r.strike_price = s /\ r.option_type = t}
    IN  IF hit = {} THEN 0 ELSE (CHOOSE r \in hit : TRUE).ltp

Leg(chain, s, t, a) == [strike |-> s, type |-> t, ltp |-> ltp_of(chain, s, t), action |-> a]

\* A strategy name the handler has no branch for.
OtherStrategy == "other"

\* positions_to_add of add_strategy, for a non-empty strike ladder.
positions_to_add(strategy, chain) ==
    LET strikes_all == strikes_of(chain)
        i   == atm_index_of(strikes_all, spot_price_of(chain))
        atm == strikes_all[i + 1]
        at(k) == strike_at(strikes_all, i, k)
    IN  CASE strategy = "iron_condor" ->
               <<Leg(chain, at(2), "CE", "sell"), Leg(chain, at(-2), "PE", "sell"),
                 Leg(chain, at(5), "CE", "buy"),  Leg(chain, at(-5), "PE", "buy")>>
          [] strategy = "straddle" ->
               <<Leg(chain, atm, "CE", "buy"), Leg(chain, atm, "PE", "buy")>>
          [] strategy = "strangle" ->
               <<Leg(chain, at(3), "CE", "buy"), Leg(chain, at(-3), "PE", "buy")>>
          [] strategy = "butterfly" ->
               <<Leg(chain, at(-2), "CE", "buy"), Leg(chain, atm, "CE", "sell"),
                 Leg(chain, atm, "CE", "sell"),   Leg(chain, at(2), "CE", "buy")>>
          [] strategy = "bull_call" ->
               <<Leg(chain, at(-2), "CE", "buy"), Leg(chain, at(2), "CE", "sell")>>
          [] strategy = "bear_put" ->
               <<Leg(chain, at(2), "PE", "buy"), Leg(chain, at(-2), "PE", "sell")>>
          [] strategy = "calendar" ->
               <<Leg(chain, at(2), "CE", "sell"), Leg(chain, at(4), "CE", "buy")>>
          [] strategy = "ratio" ->
               <<Leg(chain, atm, "CE", "buy"), Leg(chain, at(3), "CE", "sell"),
                 Leg(chain, at(3), "CE", "sell")>>
          [] OTHER -> <<>>

----------------------------------------------------------------------------
(* Positions *)

\* A manual position carries no "action" key.
NoAction == "absent"

\* f"{strike}_{option_type}_{timestamp}" and
\* f"{strike}_{type}_{strategy}_{timestamp}": the parts of the string.
manual_id(strike, option_type, ts) == <<strike, option_type, "", ts>>

strategy_id(leg, strategy, ts) == <<leg.strike, leg.type, strategy, ts>>

manual_position(username, strike, option_type, ltp, ts) ==
    [id |-> manual_id(strike, option_type, ts), strike |-> strike, type |-> option_type,
     entry_ltp |-> ltp, entry_time |-> ts, lot_size |-> LotSize,
     strategy |-> "MANUAL", action |-> NoAction, user |-> username]

\* strategy.upper() is kept as the lower-case name: upper-casing is one-to-one.
strategy_position(username, leg, strategy, ts) ==
    [id |-> strategy_id(leg, strategy, ts), strike |-> leg.strike, type |-> leg.type,
     entry_ltp |-> leg.ltp, entry_time |-> ts, lot_size |-> LotSize,
     strategy |-> strategy, action |-> leg.action, user |-> username]

----------------------------------------------------------------------------
(* The ledger operations, as functions of the ledger dict `usp` *)

\* if username not in user_scalping_positions: ... = {}
\* if today not in user_scalping_positions[username]: ... = []
ensure_bucket(usp, username, day) ==
    LET usp1 == IF Has(usp, username) THEN usp ELSE Put(usp, username, EmptyDict)
    IN  IF Has(usp1[username], day) THEN usp1
        ELSE Put(usp1, username, Put(usp1[username], day, <<>>))

\* A slip the append could be replaced by: insert(0, position).
append_position_at_front(usp, username, day, position) ==
    Put(usp, username, Put(usp[username], day, <<position>> \o usp[username][day]))

\* user_scalping_positions[username][today].append(position)
append_position(usp, username, day, position) ==
    Put(usp, username, Put(usp[username], day, Append(usp[username][day], position)))

RECURSIVE append_all(_, _, _, _)
append_all(usp, username, day, positions) ==
    IF positions = <<>> THEN usp
    ELSE append_all(append_position(usp, username, day, Head(positions)),
                    username, day, Tail(positions))

\* [p for p in bucket if p["id"] != pos_id or (p.get("user") != username and not is_admin_user)]
exit_filter(bucket, pos_id, username, is_admin_user) ==
    SelectSeq(bucket, LAMBDA p : p.id # pos_id \/ (p.user # username /\ ~is_admin_user))

\* A slip exit_position could make: the id filtered out of every user's bucket.
exit_ledger_every_user(usp, username, day, pos_id, is_admin_user) ==
    [u \in DOMAIN usp |->
        IF Has(usp[u], day)
        THEN Put(usp[u], day, SelectSeq(usp[u][day], LAMBDA p : p.id # pos_id))
        ELSE usp[u]]

\* exit_position, lines 1933-1942
exit_ledger(usp, username, day, pos_id, is_admin_user) ==
    IF Has(usp, username) /\ Has(usp[username], day)
    THEN Put(usp, username,
             Put(usp[username], day,
                 exit_filter(usp[username][day], pos_id, username, is_admin_user)))
    ELSE usp

\* A slip clear_positions could make: the admin branch taken for every caller.
clear_ledger_no_role_check(usp, username, day, is_admin_user) ==
    [u \in DOMAIN usp |->
        IF Has(usp[u], day) THEN Put(usp[u], day, <<>>) ELSE usp[u]]

\* clear_positions, lines 1957-1968
clear_ledger(usp, username, day, is_admin_user) ==
    IF is_admin_user
    THEN [u \in DOMAIN usp |->
            IF Has(usp[u], day) THEN Put(usp[u], day, <<>>) ELSE usp[u]]
    ELSE IF Has(usp, username) /\ Has(usp[username], day)
         THEN Put(usp, username, Put(usp[username], day, <<>>))
         ELSE usp

----------------------------------------------------------------------------
(* Persistence *)

\* json.dump of {date: [positions]}: the object's members as key/value pairs.
json_dump(d) == {<<k, d[k]>> : k \in DOMAIN d}

\* json.load: the object read back as a dict.
json_load(text) ==
    [k \in {m[1] : m \in text} |-> (CHOOSE m \in text : m[1] = k)[2]]

\* get_user_positions_file(username, trading_date)
get_user_positions_file(username, trading_date) == <<username, trading_date>>

\* save_user_positions: the files after the call (unchanged when the user has no
\* in-memory dict); the whole dict of the user goes to today's file.
save_user_positions(fs, usp, username, day) ==
    IF ~Has(usp, username) THEN fs
    ELSE Put(fs, get_user_positions_file(username, day), json_dump(usp[username]))

\* load_user_positions: the ledger after the call.
load_user_positions(fs, usp, username, day) ==
    IF Has(fs, get_user_positions_file(username, day))
    THEN Put(usp, username, json_load(fs[get_user_positions_file(username, day)]))
    ELSE usp

\* load_user_positions_by_date: the dict read, {} when there is no file.
load_user_positions_by_date(fs, username, trading_date) ==
    IF Has(fs, get_user_positions_file(username, trading_date))
    THEN json_load(fs[get_user_positions_file(username, trading_date)])
    ELSE EmptyDict

\* load_positions, lines 1169-1180: the ledger after the request.
load_positions_ledger(fs, usp, username, trading_date, day) ==
    IF trading_date = day
    THEN load_user_positions(fs, usp, username, day)
    ELSE LET positions == load_user_positions_by_date(fs, username, trading_date)
         IN  IF DOMAIN positions # {} THEN Put(usp, username, positions) ELSE usp

----------------------------------------------------------------------------
(* The time-series store *)

\* deque(maxlen=600)
HistMaxLen == 600

\* get_strike_key: f"{strike}_{option_type}"
get_strike_key(strike, option_type) == <<strike, option_type>>

\* A slip deque.append could be replaced by: the newest sample dropped on overflow.
deque_append_keep_oldest(q, x, maxlen) ==
    IF Len(q) >= maxlen THEN q ELSE Append(q, x)

\* deque.append on a deque of the given maxlen: the oldest sample goes on overflow.
deque_append(q, x, maxlen) ==
    IF Len(q) >= maxlen THEN Tail(q) \o <<x>> ELSE Append(q, x)

\* update_historical_data lines 461-466: the index dict and the deque are made
\* when missing.
ensure_series(hd, index_name, key) ==
    LET hd1 == IF Has(hd, index_name) THEN hd ELSE Put(hd, index_name, EmptyDict)
    IN  IF Has(hd1[index_name], key) THEN hd1
        ELSE Put(hd1, index_name, Put(hd1[index_name], key, <<>>))

\* update_historical_data line 470
append_sample(hd, index_name, key, sample) ==
    Put(hd, index_name,
        Put(hd[index_name], key, deque_append(hd[index_name][key], sample, HistMaxLen)))

\* update_historical_data, run without interruption at time `timestamp`.
update_historical_data(hd, index_name, strike, option_type, volume, oi, timestamp) ==
    append_sample(ensure_series(hd, index_name, get_strike_key(strike, option_type)),
                  index_name, get_strike_key(strike, option_type),
                  <<timestamp, volume, oi>>)

\* A slip the scan could make: > for >=.
RECURSIVE find_old_data_strict(_, _)
find_old_data_strict(data_queue, target_time) ==
    IF data_queue = <<>> THEN <<>>
    ELSE IF Head(data_queue)[1] > target_time THEN Head(data_queue)
    ELSE find_old_data_strict(Tail(data_queue), target_time)

\* get_change_data lines 493-497: the for loop with its break; <<>> is None.
RECURSIVE find_old_data(_, _)
find_old_data(data_queue, target_time) ==
    IF data_queue = <<>> THEN <<>>
    ELSE IF Head(data_queue)[1] >= target_time THEN Head(data_queue)
    ELSE find_old_data(Tail(data_queue), target_time)

\* A slip the target could carry: the minutes not turned into seconds.
target_time_in_minutes(current_time, minutes) == current_time - minutes

\* get_change_data line 487
target_time_of(current_time, minutes) == current_time - (minutes * 60)

\* (None, None)
NoChange == <<>>

\* A slip the length guard could carry: one sample taken as enough.
get_change_data_from_one_sample(hd, index_name, strike, option_type, minutes, current_time) ==
    LET key == get_strike_key(strike, option_type)
    IN  IF ~Has(hd, index_name) THEN NoChange
        ELSE IF ~Has(hd[index_name], key) THEN NoChange
        ELSE LET data_queue == hd[index_name][key]
             IN  IF Len(data_queue) < 1 THEN NoChange
                 ELSE LET current == data_queue[Len(data_queue)]
                          found == find_old_data(data_queue,
                                                 target_time_of(current_time, minutes))
                          old_data == IF found = <<>> THEN data_queue[1] ELSE found
                      IN  <<current[2] - old_data[2], current[3] - old_data[3]>>

\* get_change_data, called at time `current_time`.
get_change_data(hd, index_name, strike, option_type, minutes, current_time) ==
    LET key == get_strike_key(strike, option_type)
    IN  IF ~Has(hd, index_name) THEN NoChange
        ELSE IF ~Has(hd[index_name], key) THEN NoChange
        ELSE LET data_queue == hd[index_name][key]
             IN  IF Len(data_queue) < 2 THEN NoChange
                 ELSE LET current == data_queue[Len(data_queue)]
                          found == find_old_data(data_queue,
                                                 target_time_of(current_time, minutes))
                          old_data == IF found = <<>> THEN data_queue[1] ELSE found
                      IN  <<current[2] - old_data[2], current[3] - old_data[3]>>

----------------------------------------------------------------------------
(* Requests *)

NoId == <<>>

NoDate == 0

\* request.args.get("index", "NIFTY50")
HistIndex == "NIFTY50"

\* What a request carries besides its ids: the index and strategy parameters,
\* the two lookback windows, and the answer of fyers.optionchain to the handler.
Args(index_name, strategy, vol_interval, oi_interval, response) ==
    [index_name |-> index_name, strategy |-> strategy, vol_interval |-> vol_interval,
     oi_interval |-> oi_interval, response |-> response]

NoResponse == [kind |-> "none", rows |-> {}, spot |-> NoSpot]

NoArgs == Args("", "", 0, 0, NoResponse)

\* The JSON body of a request that sends no data back.
NoReply == <<>>

RequestWith(name, username, id, trading_date, status, args, reply) ==
    [name |-> name, user |-> username, id |-> id, date |-> trading_date, status |-> status,
     args |-> args, reply |-> reply]

Request(name, username, id, trading_date, status) ==
    RequestWith(name, username, id, trading_date, status, NoArgs, NoReply)

NoRequest == Request("none", "", NoId, NoDate, "")

\* A get_change_data call: its arguments, the time it was made at, what it returned.
Result(index_name, strike, option_type, minutes, now, value) ==
    [index_name |-> index_name, strike |-> strike, option_type |-> option_type,
     minutes |-> minutes, now |-> now, value |-> value]

NoResult == Result("", 0, "", 0, 0, NoChange)

\* The positions held in memory, over all users and days.
RECURSIVE SumLen(_, _)
SumLen(f, S) ==
    IF S = {} THEN 0
    ELSE LET k == CHOOSE x \in S : TRUE
         IN  Len(f[k]) + SumLen(f, S \ {k})

RECURSIVE CountPositions(_, _)
CountPositions(usp, S) ==
    IF S = {} THEN 0
    ELSE LET u == CHOOSE x \in S : TRUE
         IN  SumLen(usp[u], DOMAIN usp[u]) + CountPositions(usp, S \ {u})

TotalPositions == CountPositions(user_scalping_positions, DOMAIN user_scalping_positions)

Bucket(usp, username, day) ==
    IF Has(usp, username) /\ Has(usp[username], day) THEN usp[username][day] ELSE <<>>

\* Every position id in memory.
AllIds ==
    {user_scalping_positions[u][d][i].id :
        <<u, d, i>> \in {x \in Users \X Days \X (1..MaxPositions) :
                            /\ Has(user_scalping_positions, x[1])
                            /\ Has(user_scalping_positions[x[1]], x[2])
                            /\ x[3] <= Len(user_scalping_positions[x[1]][x[2]])}}

\* What a client may send as the id of exit_position.
UnknownId == manual_id(0, "CE", 0)

AddStrikes == {200}

OptionTypes == {"CE", "PE"}

AddTypes == {"CE"}

AddLtps == {150}

\* The strategy requests and upstream snapshots the ledger is driven with.
LedgerStrategies == {"ratio", OtherStrategy}

LedgerChains == {FullChain, EmptyChain}

\* The request threads of the server (app.run serves each request on its own thread).
Threads == {1, 2}

\* What a handler in progress holds: the request, the positions it has still to
\* append, and the list it has built and not yet stored.
Call(name, username, id, todo, filtered) ==
    [name |-> name, user |-> username, id |-> id, todo |-> todo, filtered |-> filtered]

NoCall == Call("none", "", NoId, <<>>, <<>>)

----------------------------------------------------------------------------
(* The request handlers of the ledger, each run to completion *)

\* Any handler, called without a logged-in session: "Please login first".
NotLoggedIn(username, name) ==
    /\ ~is_logged_in(username)
    /\ name \in {"add_position", "add_strategy", "exit_position", "clear_positions",
                 "save_positions", "load_positions"}
    /\ op' = Request(name, username, NoId, NoDate, "error")
    /\ UNCHANGED <<ledgerVars, clock, raceVars, histVars, previous_data, sent>>

\* login (POST, right password): the session is set, today's file is loaded.
login(username) ==
    /\ session' = session \cup {username}
    /\ user_scalping_positions' =
          load_user_positions(files, user_scalping_positions, username, today)
    /\ op' = Request("login", username, NoId, NoDate, "success")
    /\ UNCHANGED <<files, today, clock, raceVars, histVars, previous_data, sent>>

\* logout: the positions are saved, the session is cleared.
logout(username) ==
    /\ is_logged_in(username)
    /\ files' = save_user_positions(files, user_scalping_positions, username, today)
    /\ session' = session \ {username}
    /\ op' = Request("logout", username, NoId, NoDate, "success")
    /\ UNCHANGED <<user_scalping_positions, today, clock, raceVars, histVars, previous_data, sent>>

add_position_on(username, index_name, strike, option_type, ltp) ==
    /\ is_logged_in(username)
    /\ TotalPositions < MaxPositions
    /\ clock < MaxClock
    /\ clock' = clock + 1    \* the next request reads a later time
    /\ LET position == manual_position(username, strike, option_type, ltp, clock)
       IN  /\ user_scalping_positions' =
                 append_position(ensure_bucket(user_scalping_positions, username, today),
                                 username, today, position)
           /\ op' = RequestWith("add_position", username, position.id, NoDate, "success",
                                 Args(index_name, "", 0, 0, NoResponse), NoReply)
    /\ UNCHANGED <<files, today, session, raceVars, histVars, previous_data, sent>>

\* add_position for the index the other runs work on.
add_position(username, strike, option_type, ltp) ==
    add_position_on(username, HistIndex, strike, option_type, ltp)

\* add_strategy, with `max_positions` positions at most held in memory.
add_strategy_within(username, strategy, chain, max_positions) ==
    /\ is_logged_in(username)
    /\ IF chain.rows = {}
       THEN \* "No option chain data available"
            /\ op' = RequestWith("add_strategy", username, NoId, NoDate, "error",
                                 Args(HistIndex, strategy, 0, 0, chain), NoReply)
            /\ UNCHANGED <<user_scalping_positions, clock>>
       ELSE LET legs == positions_to_add(strategy, chain)
                new  == [i \in 1..Len(legs) |->
                            strategy_position(username, legs[i], strategy, clock)]
            IN  /\ clock < MaxClock
                /\ TotalPositions + Len(legs) <= max_positions
                /\ clock' = clock + 1    \* the next request reads a later time
                /\ user_scalping_positions' =
                      append_all(ensure_bucket(user_scalping_positions, username, today),
                                 username, today, new)
                /\ op' = RequestWith("add_strategy", username, NoId, Len(legs), "success",
                                     Args(HistIndex, strategy, 0, 0, chain), NoReply)
    /\ UNCHANGED <<files, today, session, raceVars, histVars, previous_data, sent>>

add_strategy(username, strategy, chain) ==
    add_strategy_within(username, strategy, chain, MaxPositions)

exit_position(username, pos_id) ==
    /\ is_logged_in(username)
    /\ user_scalping_positions' =
          exit_ledger(user_scalping_positions, username, today, pos_id, is_admin(username))
    /\ op' = Request("exit_position", username, pos_id, NoDate, "success")
    /\ UNCHANGED <<files, today, session, clock, raceVars, histVars, previous_data, sent>>

clear_positions(username) ==
    /\ is_logged_in(username)
    /\ user_scalping_positions' =
          clear_ledger(user_scalping_positions, username, today, is_admin(username))
    /\ op' = Request("clear_positions", username, NoId, NoDate, "success")
    /\ UNCHANGED <<files, today, session, clock, raceVars, histVars, previous_data, sent>>

save_positions(username) ==
    /\ is_logged_in(username)
    /\ files' = save_user_positions(files, user_scalping_positions, username, today)
    /\ op' = Request("save_positions", username, NoId, NoDate,
                     IF Has(user_scalping_positions, username) THEN "success" ELSE "error")
    /\ UNCHANGED <<user_scalping_positions, today, session, clock, raceVars, histVars, previous_data, sent>>

load_positions(username, trading_date) ==
    /\ is_logged_in(username)
    /\ user_scalping_positions' =
          load_positions_ledger(files, user_scalping_positions, username, trading_date, today)
    /\ op' = Request("load_positions", username, NoId, trading_date, "success")
    /\ UNCHANGED <<files, today, session, clock, raceVars, histVars, previous_data, sent>>

\* Midnight: date.today() moves to the next trading day.
NextDay ==
    /\ today < MaxDay
    /\ today' = today + 1
    /\ op' = NoRequest
    /\ UNCHANGED <<user_scalping_positions, files, session, clock, raceVars, histVars, previous_data, sent>>

Init ==
    /\ user_scalping_positions = EmptyDict
    /\ files = EmptyDict
    /\ today = 1
    /\ session = {}
    /\ clock = 0
    /\ op = NoRequest
    /\ pc = [t \in Threads |-> "idle"]
    /\ local = [t \in Threads |-> NoCall]
    /\ pre = [usp |-> EmptyDict, calls |-> <<NoCall, NoCall>>]
    /\ historical_data = EmptyDict
    /\ appended = EmptyDict
    /\ result = NoResult
    /\ previous_data = EmptyDict
    /\ sent = EmptyDict

Next ==
    \/ \E u \in Users, n \in {"add_position", "exit_position"} : NotLoggedIn(u, n)
    \/ \E u \in Users : login(u)
    \/ \E u \in Users, k \in AddStrikes, t \in AddTypes, l \in AddLtps :
          add_position(u, k, t, l)
    \/ \E u \in Users, g \in LedgerStrategies, c \in LedgerChains :
          add_strategy(u, g, c)
    \/ \E u \in Users, x \in AllIds \cup {UnknownId} : exit_position(u, x)
    \/ \E u \in Users : clear_positions(u)
    \/ NextDay

\* The ledger requests on a disk that holds no snapshot.
Spec == Init /\ [][Next]_vars

NextPersist ==
    \/ Next
    \/ \E u \in Users : logout(u)
    \/ \E u \in Users : save_positions(u)
    \/ \E u \in Users, d \in Days : load_positions(u, d)

\* The ledger requests together with saving and loading snapshots.
SpecPersist == Init /\ [][NextPersist]_vars

----------------------------------------------------------------------------
(* Properties of the ledger *)

\* The dict of a user, {} when the user has none.
UserDict(usp, username) == IF Has(usp, username) THEN usp[username] ELSE EmptyDict

\* Bucket (username, day) is the same list, or is missing, in both ledgers.
SameBucket(usp1, usp2, username, day) ==
    /\ Has(UserDict(usp1, username), day) <=> Has(UserDict(usp2, username), day)
    /\ Bucket(usp1, username, day) = Bucket(usp2, username, day)

SameUser(usp1, usp2, username) == \A d \in Days : SameBucket(usp1, usp2, username, d)

HasId(bucket, pos_id) == \E i \in 1..Len(bucket) : bucket[i].id = pos_id

Done(request, name) == request.name = name /\ request.status = "success"

\* C2: an exit_position request of a logged-in user who is not an admin leaves
\* the position list of every other user (the owner of the id included)
\* unchanged, whatever the id.
C2_NonOwnerExitLeavesOwner ==
    [][(Done(op', "exit_position") /\ users[op'.user].role # "admin")
          => \A o \in Users \ {op'.user} :
                SameUser(user_scalping_positions, user_scalping_positions', o)]_vars

\* C2 witness: alice has sent exit_position with the id of a position that is
\* in admin's bucket of the day.
C2_Witness ==
    /\ Done(op, "exit_position")
    /\ op.user = "alice"
    /\ HasId(Bucket(user_scalping_positions, "admin", today), op.id)

\* The bucket without its first position of the given id.
RECURSIVE RemoveFirst(_, _)
RemoveFirst(bucket, pos_id) ==
    IF bucket = <<>> THEN <<>>
    ELSE IF Head(bucket).id = pos_id THEN Tail(bucket)
    ELSE <<Head(bucket)>> \o RemoveFirst(Tail(bucket), pos_id)

\* C3: an exit_position by the owner for id X takes exactly one position, the one
\* of id X, out of the owner's bucket of the day and leaves the rest of the
\* ledger as it was; with no position of id X the ledger is unchanged.
C3_OwnerExitRemovesOne ==
    [][Done(op', "exit_position")
          => LET u == op'.user
                 before == Bucket(user_scalping_positions, u, today)
                 after  == Bucket(user_scalping_positions', u, today)
             IN  /\ HasId(before, op'.id)
                    => /\ Len(after) = Len(before) - 1
                       /\ after = RemoveFirst(before, op'.id)
                 /\ ~HasId(before, op'.id)
                    => user_scalping_positions' = user_scalping_positions
                 /\ \A o \in Users \ {u} :
                       SameUser(user_scalping_positions, user_scalping_positions', o)
                 /\ \A d \in Days \ {today} :
                       SameBucket(user_scalping_positions, user_scalping_positions', u, d)]_vars

\* C4: clear_positions by an admin empties every user's bucket of the day; by
\* another user U it empties U's bucket of the day and leaves every other
\* user's buckets unchanged; buckets of other days are unchanged in both cases.
C4_ClearScope ==
    [][Done(op', "clear_positions")
          => LET u == op'.user
             IN  /\ Bucket(user_scalping_positions', u, today) = <<>>
                 /\ \A o \in Users \ {u} :
                       IF users[u].role = "admin"
                       THEN Bucket(user_scalping_positions', o, today) = <<>>
                       ELSE SameUser(user_scalping_positions, user_scalping_positions', o)
                 /\ \A o \in Users, d \in Days \ {today} :
                       SameBucket(user_scalping_positions, user_scalping_positions', o, d)]_vars

\* C4 witness: alice has cleared her positions while admin holds positions of
\* the day and alice holds positions of an earlier day.
C4_Witness ==
    /\ Done(op, "clear_positions")
    /\ op.user = "alice"
    /\ Bucket(user_scalping_positions, "admin", today) # <<>>
    /\ \E d \in Days \ {today} : Bucket(user_scalping_positions, "alice", d) # <<>>

InBucket(bucket, position) == \E i \in 1..Len(bucket) : bucket[i] = position

\* C5: a position in a user's bucket of the day stays there over every step
\* that is not an exit for its id, a clear that covers the user, or the day
\* changing.
C5_PositionStays ==
    [][\A u \in Users :
          \A i \in 1..Len(Bucket(user_scalping_positions, u, today)) :
             LET p == user_scalping_positions[u][today][i]
             IN  (/\ today' = today
                  /\ ~(op'.name = "exit_position" /\ op'.id = p.id)
                  /\ ~(/\ op'.name = "clear_positions"
                       /\ (op'.user = u \/ users[op'.user].role = "admin")))
                 => InBucket(Bucket(user_scalping_positions', u, today), p)]_vars

\* C6: load_positions of user U for a prior day D replaces bucket (U, D) by the
\* list saved for D and leaves U's other buckets, the one of the current day
\* included, and every other user's buckets unchanged.
C6_LoadReplacesOneBucket ==
    [][(/\ Done(op', "load_positions")
        /\ op'.date < today
        /\ Has(files, get_user_positions_file(op'.user, op'.date)))
          => LET u == op'.user
                 saved == json_load(files[get_user_positions_file(u, op'.date)])
             IN  /\ Has(saved, op'.date)
                    => Bucket(user_scalping_positions', u, op'.date) = saved[op'.date]
                 /\ \A d \in Days \ {op'.date} :
                       SameBucket(user_scalping_positions, user_scalping_positions', u, d)
                 /\ \A o \in Users \ {u} :
                       SameUser(user_scalping_positions, user_scalping_positions', o)]_vars

----------------------------------------------------------------------------
(* Two requests of one user handled at the same time.  Each handler is cut   *)
(* where another thread can run between its read of the bucket and its       *)
(* write; the steps between two cuts are taken as one.                       *)

AllIdle == \A t \in Threads : pc[t] = "idle"

AllDone == \A t \in Threads : pc[t] = "done"

\* The requests a client may send for `username` at the present time.
Calls(username) ==
    {Call("add_position", username, NoId,
          <<manual_position(username, k, t, l, clock)>>, <<>>) :
        <<k, t, l>> \in AddStrikes \X AddTypes \X AddLtps}
    \cup {Call("add_strategy", username, NoId,
               [i \in 1..Len(positions_to_add("ratio", FullChain)) |->
                   strategy_position(username, positions_to_add("ratio", FullChain)[i],
                                     "ratio", clock)], <<>>)}
    \cup {Call("exit_position", username, x, <<>>, <<>>) : x \in AllIds \cup {UnknownId}}
    \cup {Call("clear_positions", username, NoId, <<>>, <<>>)}

\* Two requests of one logged-in user arrive together.
RaceStart(username, c1, c2) ==
    /\ AllIdle
    /\ is_logged_in(username)
    /\ clock < MaxClock
    /\ TotalPositions + Len(c1.todo) + Len(c2.todo) <= MaxPositions
    /\ pre' = [usp |-> user_scalping_positions, calls |-> <<c1, c2>>]
    /\ local' = [t \in Threads |-> IF t = 1 THEN c1 ELSE c2]
    /\ pc' = [t \in Threads |-> "begin"]
    /\ op' = NoRequest
    /\ UNCHANGED <<ledgerVars, clock, histVars, previous_data, sent>>

\* add_position lines 1900-1905, add_strategy lines 1745-1750: the bucket is made
\* if it is missing.
RaceAddBegin(t) ==
    /\ pc[t] = "begin"
    /\ local[t].name \in {"add_position", "add_strategy"}
    /\ user_scalping_positions' =
          ensure_bucket(user_scalping_positions, local[t].user, today)
    /\ pc' = [pc EXCEPT ![t] = "append"]
    /\ UNCHANGED <<files, today, session, clock, op, local, pre, histVars, previous_data, sent>>

\* user_scalping_positions[username][today].append(position): one position goes
\* onto the list that is the bucket now.
RaceAppend(t) ==
    /\ pc[t] = "append"
    /\ IF local[t].todo = <<>>
       THEN /\ pc' = [pc EXCEPT ![t] = "done"]
            /\ UNCHANGED <<user_scalping_positions, local>>
       ELSE /\ user_scalping_positions' =
                  append_position(user_scalping_positions, local[t].user, today,
                                  Head(local[t].todo))
            /\ local' = [local EXCEPT ![t].todo = Tail(@)]
            /\ UNCHANGED pc
    /\ UNCHANGED <<files, today, session, clock, op, pre, histVars, previous_data, sent>>

\* exit_position lines 1933-1941: the list comprehension has read the bucket and
\* built the filtered list; the list is not stored yet.
RaceExitFilter(t) ==
    /\ pc[t] = "begin"
    /\ local[t].name = "exit_position"
    /\ LET u == local[t].user
       IN  IF Has(user_scalping_positions, u) /\ Has(user_scalping_positions[u], today)
           THEN /\ local' = [local EXCEPT ![t].filtered =
                               exit_filter(user_scalping_positions[u][today],
                                           local[t].id, u, is_admin(u))]
                /\ pc' = [pc EXCEPT ![t] = "store"]
           ELSE /\ pc' = [pc EXCEPT ![t] = "done"]
                /\ UNCHANGED local
    /\ UNCHANGED <<ledgerVars, clock, op, pre, histVars, previous_data, sent>>

\* exit_position line 1939: the filtered list becomes the bucket.
RaceExitStore(t) ==
    /\ pc[t] = "store"
    /\ user_scalping_positions' =
          Put(user_scalping_positions, local[t].user,
              Put(user_scalping_positions[local[t].user], today, local[t].filtered))
    /\ pc' = [pc EXCEPT ![t] = "done"]
    /\ UNCHANGED <<files, today, session, clock, op, local, pre, histVars, previous_data, sent>>

\* clear_positions lines 1955-1968: the only write is the store of [].
RaceClear(t) ==
    /\ pc[t] = "begin"
    /\ local[t].name = "clear_positions"
    /\ user_scalping_positions' =
          clear_ledger(user_scalping_positions, local[t].user, today,
                       is_admin(local[t].user))
    /\ pc' = [pc EXCEPT ![t] = "done"]
    /\ UNCHANGED <<files, today, session, clock, op, local, pre, histVars, previous_data, sent>>

\* Both responses are sent; time has passed.
RaceEnd ==
    /\ AllDone
    /\ pc' = [t \in Threads |-> "idle"]
    /\ clock' = clock + 1
    /\ UNCHANGED <<ledgerVars, op, local, pre, histVars, previous_data, sent>>

RaceLogin(username) == AllIdle /\ login(username)

NextRace ==
    \/ \E u \in Users : RaceLogin(u)
    \/ \E u \in Users : \E c1 \in Calls(u), c2 \in Calls(u) : RaceStart(u, c1, c2)
    \/ \E t \in Threads : RaceAddBegin(t)
    \/ \E t \in Threads : RaceAppend(t)
    \/ \E t \in Threads : RaceExitFilter(t)
    \/ \E t \in Threads : RaceExitStore(t)
    \/ \E t \in Threads : RaceClear(t)
    \/ RaceEnd

SpecRace == Init /\ [][NextRace]_vars

\* The ledger after the call, run alone on ledger `usp`.
run_alone(usp, c, day, admin) ==
    CASE c.name \in {"add_position", "add_strategy"} ->
            append_all(ensure_bucket(usp, c.user, day), c.user, day, c.todo)
      [] c.name = "exit_position" -> exit_ledger(usp, c.user, day, c.id, admin)
      [] c.name = "clear_positions" -> clear_ledger(usp, c.user, day, admin)
      [] OTHER -> usp

\* C1: when two requests of one user have both been handled, the user's bucket
\* of the day is what running the two one after the other, in one of the two
\* orders, leaves.
C1_Serializable ==
    AllDone =>
        LET u == pre.calls[1].user
            serial(i, j) ==
                run_alone(run_alone(pre.usp, pre.calls[i], today, is_admin(u)),
                          pre.calls[j], today, is_admin(u))
        IN  \/ Bucket(user_scalping_positions, u, today) = Bucket(serial(1, 2), u, today)
            \/ Bucket(user_scalping_positions, u, today) = Bucket(serial(2, 1), u, today)

----------------------------------------------------------------------------
(* Polls feeding the time-series store, and get_change_data calls *)

HistStrike == 200

\* The (volume, oi) pairs the upstream snapshot carries for the contract.
HistQuotes == {<<100, 500>>, <<120, 520>>, <<140, 530>>}

\* Seconds between two requests.
TickSteps == {30, 35}

TickMax == CHOOSE d \in TickSteps : \A e \in TickSteps : e <= d

Series(hd, index_name, key) ==
    IF Has(hd, index_name) /\ Has(hd[index_name], key) THEN hd[index_name][key] ELSE <<>>

Stamped == {t \in Threads : pc[t] = "stamped"}

\* The upstream volume of a contract is cumulative over the day: a snapshot never
\* carries less than one fetched before it.
FeedAllows(quote, series) ==
    IF series = <<>> THEN TRUE ELSE quote[1] >= series[Len(series)][2]

SeriesNow(option_type) ==
    Series(historical_data, HistIndex, get_strike_key(HistStrike, option_type))

HistTick(d) ==
    /\ clock + d <= TickMax * MaxTicks
    /\ clock' = clock + d
    /\ op' = NoRequest
    /\ result' = NoResult
    /\ UNCHANGED <<ledgerVars, raceVars, historical_data, appended, previous_data, sent>>

\* update_historical_data lines 461-469 on a polling thread: the deque is made
\* if missing and the clock is read.
HistStamp(t, option_type, quote) ==
    /\ pc[t] = "idle"
    /\ Len(SeriesNow(option_type)) + Cardinality(Stamped) < MaxSamples
    /\ FeedAllows(quote, SeriesNow(option_type))
    /\ historical_data' =
          ensure_series(historical_data, HistIndex, get_strike_key(HistStrike, option_type))
    /\ local' = [local EXCEPT ![t] =
                    [key |-> get_strike_key(HistStrike, option_type),
                     sample |-> <<clock, quote[1], quote[2]>>]]
    /\ pc' = [pc EXCEPT ![t] = "stamped"]
    /\ op' = NoRequest
    /\ result' = NoResult
    /\ UNCHANGED <<ledgerVars, clock, pre, appended, previous_data, sent>>

\* update_historical_data line 470 on a polling thread.
HistAppend(t) ==
    /\ pc[t] = "stamped"
    /\ historical_data' =
          append_sample(historical_data, HistIndex, local[t].key, local[t].sample)
    /\ appended' = Put(appended, local[t].key,
                       Append(Entry(appended, local[t].key), local[t].sample))
    /\ pc' = [pc EXCEPT ![t] = "idle"]
    /\ local' = [local EXCEPT ![t] = NoCall]
    /\ op' = NoRequest
    /\ result' = NoResult
    /\ UNCHANGED <<ledgerVars, clock, pre, previous_data, sent>>

\* update_historical_data on the only polling thread, at the present time.
HistUpdate(option_type, quote) ==
    /\ Len(SeriesNow(option_type)) < MaxSamples
    /\ FeedAllows(quote, SeriesNow(option_type))
    /\ historical_data' =
          update_historical_data(historical_data, HistIndex, HistStrike, option_type,
                                 quote[1], quote[2], clock)
    /\ appended' = Put(appended, get_strike_key(HistStrike, option_type),
                       Append(Entry(appended, get_strike_key(HistStrike, option_type)),
                              <<clock, quote[1], quote[2]>>))
    /\ op' = NoRequest
    /\ result' = NoResult
    /\ UNCHANGED <<ledgerVars, clock, raceVars, previous_data, sent>>

\* The calls a poll makes: the contract of the series over 1 or 2 minutes, a
\* contract with no series, an index with no series.
Queries == {<<HistIndex, "CE", 1>>, <<HistIndex, "CE", 2>>, <<HistIndex, "PE", 1>>,
            <<"BANKNIFTY", "CE", 1>>}

\* A get_change_data call of a poll.
HistQuery(index_name, option_type, minutes) ==
    /\ result' = Result(index_name, HistStrike, option_type, minutes, clock,
                        get_change_data(historical_data, index_name, HistStrike,
                                        option_type, minutes, clock))
    /\ op' = Request("get_change_data", "", NoId, NoDate, "success")
    /\ UNCHANGED <<ledgerVars, clock, raceVars, historical_data, appended, previous_data, sent>>

NextHist ==
    \/ \E d \in TickSteps : HistTick(d)
    \/ \E t \in Threads, q \in HistQuotes : HistStamp(t, "CE", q)
    \/ \E t \in Threads : HistAppend(t)
    \/ \E c \in Queries : HistQuery(c[1], c[2], c[3])

\* Polls of several viewers appending to one series, and delta calls.
SpecHist == Init /\ [][NextHist]_vars

NextDelta ==
    \/ \E d \in TickSteps : HistTick(d)
    \/ \E q \in HistQuotes : HistUpdate("CE", q)
    \/ \E c \in Queries : HistQuery(c[1], c[2], c[3])

\* One viewer polling: appends and delta calls one after the other.
SpecDelta == Init /\ [][NextDelta]_vars

----------------------------------------------------------------------------
(* One viewer polling for long enough to fill a series *)

RECURSIVE update_all(_, _, _, _, _)
update_all(hd, option_types, volume, oi, timestamp) ==
    IF option_types = <<>> THEN hd
    ELSE update_all(update_historical_data(hd, HistIndex, HistStrike, Head(option_types),
                                           volume, oi, timestamp),
                    Tail(option_types), volume, oi, timestamp)

RECURSIVE record_all(_, _, _)
record_all(log, option_types, sample) ==
    IF option_types = <<>> THEN log
    ELSE record_all(Put(log, get_strike_key(HistStrike, Head(option_types)),
                        Append(Entry(log, get_strike_key(HistStrike, Head(option_types))),
                               sample)),
                    Tail(option_types), sample)

\* A poll cycle: update_historical_data for each contract of the snapshot, with
\* the cumulative volume of the cycle; the next cycle is a second later.  The
\* PE contract is in the snapshot of the first cycles only, or not at all.
RingPoll(option_types) ==
    /\ clock < HistMaxLen + MaxOverflow
    /\ Len(option_types) > 1 => clock < MaxSamples
    /\ LET volume == 100 + clock
           oi == 500 + (clock % 3)
       IN  /\ historical_data' = update_all(historical_data, option_types, volume, oi, clock)
           /\ appended' = record_all(appended, option_types, <<clock, volume, oi>>)
    /\ clock' = clock + 1
    /\ op' = NoRequest
    /\ result' = NoResult
    /\ UNCHANGED <<ledgerVars, raceVars, previous_data, sent>>

NextRing == \E y \in {<<"CE">>, <<"CE", "PE">>} : RingPoll(y)

SpecRing == Init /\ [][NextRing]_vars

----------------------------------------------------------------------------
(* Properties of the time-series store *)

LastN(q, n) == SubSeq(q, Len(q) - n + 1, Len(q))

HistKeys == {get_strike_key(HistStrike, t) : t \in OptionTypes}

\* C7: a series holds the most recent min(n, 600) of the n samples appended to
\* its key, in append order; it never holds more than 600.
C7_RingKeepsMostRecent ==
    \A key \in HistKeys :
        LET q == Series(historical_data, HistIndex, key)
            all == Entry(appended, key)
        IN  /\ Len(q) <= 600
            /\ Len(q) = Min2(Len(all), 600)
            /\ q = LastN(all, Min2(Len(all), 600))

\* C7 witness: more than 600 samples have been appended to the CE series.
C7_Witness ==
    Len(Entry(appended, get_strike_key(HistStrike, "CE"))) > 600

\* C8: the timestamps of every series are non-decreasing from oldest to newest.
C8_TimestampsNonDecreasing ==
    \A key \in HistKeys :
        LET q == Series(historical_data, HistIndex, key)
        IN  \A i \in 1..Len(q) : \A j \in i..Len(q) : q[i][1] <= q[j][1]

Queried == op.name = "get_change_data"

\* The series the call just made has read.
QueriedSeries ==
    Series(historical_data, result.index_name,
           get_strike_key(result.strike, result.option_type))

\* The delta measured from the first sample, oldest first, whose timestamp is at
\* least `target`, or from the oldest sample when there is none.
DeltaSince(q, target) ==
    LET at_or_after == {i \in 1..Len(q) : q[i][1] >= target}
        baseline == IF at_or_after = {} THEN 1
                    ELSE CHOOSE i \in at_or_after : \A j \in at_or_after : i <= j
    IN  <<q[Len(q)][2] - q[baseline][2], q[Len(q)][3] - q[baseline][3]>>

\* C9 as claimed: the target time is the timestamp of the latest stored sample
\* minus minutes*60, whenever the call is made.
C9_TargetFromLatestSample ==
    (Queried /\ Len(QueriedSeries) >= 2)
        => result.value =
              DeltaSince(QueriedSeries,
                         QueriedSeries[Len(QueriedSeries)][1] - result.minutes * 60)

\* C9 as amended: the target time is the time of the call minus minutes*60, so
\* a call made at the time of the latest stored sample measures from that
\* sample's timestamp minus minutes*60.
C9_TargetFromCallTime ==
    (/\ Queried
     /\ Len(QueriedSeries) >= 2
     /\ result.now = QueriedSeries[Len(QueriedSeries)][1])
        => result.value =
              DeltaSince(QueriedSeries,
                         QueriedSeries[Len(QueriedSeries)][1] - result.minutes * 60)

\* C9 witness: a call made at the time of the latest sample whose baseline is
\* neither the oldest nor the latest sample.
C9_Witness ==
    /\ Queried
    /\ Len(QueriedSeries) >= 3
    /\ result.now = QueriedSeries[Len(QueriedSeries)][1]
    /\ QueriedSeries[1][1] < result.now - result.minutes * 60
    /\ QueriedSeries[2][1] >= result.now - result.minutes * 60
    /\ QueriedSeries[2][1] < result.now

C11_AbsentIffShortHistory ==
    Queried =>
        LET known == /\ Has(historical_data, result.index_name)
                     /\ Has(historical_data[result.index_name],
                            get_strike_key(result.strike, result.option_type))
        IN  IF known /\ Len(QueriedSeries) >= 2
            THEN /\ result.value # NoChange
                 /\ Len(result.value) = 2
                 /\ result.value[1] \in Int
                 /\ result.value[2] \in Int
            ELSE result.value = NoChange

\* C11 witness: a call on a known key whose series has one sample has returned
\* (None, None).
C11_Witness ==
    /\ Queried
    /\ Has(historical_data, result.index_name)
    /\ Has(historical_data[result.index_name],
           get_strike_key(result.strike, result.option_type))
    /\ Len(QueriedSeries) = 1
    /\ result.value = NoChange

\* C14: an add_strategy call that returns success has appended between 2 and 4
\* positions to the caller's bucket of the day, and the leg count of its
\* message is the number of positions it appended.
C14_StrategyAddsTwoToFourLegs ==
    [][Done(op', "add_strategy")
          => LET before == Bucket(user_scalping_positions, op'.user, today)
                 after  == Bucket(user_scalping_positions', op'.user, today)
             IN  /\ Len(after) - Len(before) \in 2..4
                 /\ op'.date = Len(after) - Len(before)
                 /\ SubSeq(after, 1, Len(before)) = before]_vars

----------------------------------------------------------------------------
(* The strategy builder on strike ladders of every length *)

Strategies == {"iron_condor", "straddle", "strangle", "butterfly", "bull_call",
               "bear_put", "calendar", "ratio"}

\* The quote of the k-th strike of a ladder.
LadderLtp(k, option_type) == IF option_type = "CE" THEN 10 * k + 1 ELSE 10 * k + 2

\* A chain of n strikes 100, 200, ...: with a CE and a PE row at every strike,
\* or with one row per strike only (CE at the odd strikes, PE at the even ones).
LadderChain(n, spot, every_quote) ==
    [rows |-> {Row(100 * k, t, LadderLtp(k, t)) :
                  <<k, t>> \in {x \in (1..n) \X OptionTypes :
                                   every_quote \/ (x[1] % 2 = 1) = (x[2] = "CE")}},
     spot |-> spot]

LadderChains ==
    {FullChain} \cup
    UNION {{LadderChain(n, spot, q) : spot \in {NoSpot} \cup {100 * k : k \in 1..n},
                                      q \in BOOLEAN} : n \in 1..MaxLadder}

\* The positions held in memory in the runs of the strategy builder: the legs
\* of its largest strategy.
MaxLegs == Len(positions_to_add("iron_condor", FullChain))

NextLadder ==
    \/ login("alice")
    \/ /\ TotalPositions < MaxLegs
       /\ \E strategy \in Strategies, chain \in LadderChains :
             add_strategy_within("alice", strategy, chain, MaxLegs)

SpecLadder == Init /\ [][NextLadder]_vars

\* The legs of each strategy: offset from the ATM index, kind, side.
StrategyTable(strategy) ==
    CASE strategy = "straddle"    -> <<<<0, "CE", "buy">>, <<0, "PE", "buy">>>>
      [] strategy = "strangle"    -> <<<<3, "CE", "buy">>, <<-3, "PE", "buy">>>>
      [] strategy = "iron_condor" -> <<<<2, "CE", "sell">>, <<-2, "PE", "sell">>,
                                       <<5, "CE", "buy">>, <<-5, "PE", "buy">>>>
      [] strategy = "butterfly"   -> <<<<-2, "CE", "buy">>, <<0, "CE", "sell">>,
                                       <<0, "CE", "sell">>, <<2, "CE", "buy">>>>
      [] strategy = "bull_call"   -> <<<<-2, "CE", "buy">>, <<2, "CE", "sell">>>>
      [] strategy = "bear_put"    -> <<<<2, "PE", "buy">>, <<-2, "PE", "sell">>>>
      [] strategy = "calendar"    -> <<<<2, "CE", "sell">>, <<4, "CE", "buy">>>>
      [] strategy = "ratio"       -> <<<<0, "CE", "buy">>, <<3, "CE", "sell">>,
                                       <<3, "CE", "sell">>>>

Clamp(x, lo, hi) == IF x < lo THEN lo ELSE IF x > hi THEN hi ELSE x

\* The legs the table gives on a chain: <<strike, kind, side, entry price>>.
TableLegs(strategy, chain) ==
    LET ladder == strikes_of(chain)
        i == atm_index_of(ladder, spot_price_of(chain))
        strike(k) == ladder[Clamp(i + k, 0, Len(ladder) - 1) + 1]
        quotes(k, t) == {r \in chain.rows : r.strike_price = strike(k) /\ r.option_type = t}
        price(k, t) == IF quotes(k, t) = {} THEN 0 ELSE (CHOOSE r \in quotes(k, t) : TRUE).ltp
        table == StrategyTable(strategy)
    IN  [j \in 1..Len(table) |->
            <<strike(table[j][1]), table[j][2], table[j][3],
              price(table[j][1], table[j][2])>>]

\* The positions of a bucket from the n-th on, as <<strike, kind, side, entry price>>.
LegsFrom(bucket, n) ==
    [j \in 1..(Len(bucket) - n) |->
        <<bucket[n + j].strike, bucket[n + j].type, bucket[n + j].action,
          bucket[n + j].entry_ltp>>]

----------------------------------------------------------------------------
(* The poll handlers: scalping_data and chain_rows_diff *)

\* A row of optionsChain with the fields the polls read.
PollRow(k, t, l, v, o) ==
    [strike_price |-> k, option_type |-> t, ltp |-> l, volume |-> v, oi |-> o]

\* What fyers.optionchain answers: kind "chain" is a dict with a data section,
\* "not_dict" a response that is no dict, "data_null" a dict whose "data" is
\* null, "no_strike" rows without any strike column, "raises" an exception.
Response(kind, rows, spot) == [kind |-> kind, rows |-> rows, spot |-> spot]

\* How far a handler gets with a response: "raise" when the fetch or the frame
\* built from it raises (fyers.optionchain itself, None.get for a null data
\* section, df["strike_price"] for rows without a strike column), "empty" when
\* options_data is empty, "rows" otherwise.
fetch_outcome(response) ==
    CASE response.kind = "raises"    -> "raise"
      [] response.kind = "data_null" -> "raise"
      [] response.kind = "no_strike" -> "raise"
      [] response.kind = "not_dict"  -> "empty"
      [] OTHER -> IF response.rows = {} THEN "empty" ELSE "rows"

\* strikes_all[max(0, atm_index - below) : min(len(strikes_all), atm_index + above)]
strikes_to_show(strikes_all, atm_index, below, above) ==
    SubSeq(strikes_all, Max2(0, atm_index - below) + 1,
           Min2(Len(strikes_all), atm_index + above))

\* pos.get("action", "buy")
action_of(pos) == IF pos.action = NoAction THEN "buy" ELSE pos.action

\* current_row["ltp"].values[0] if not current_row.empty else entry_ltp
current_ltp_of(pos, rows) ==
    LET current_row == {r \in rows : r.strike_price = pos.strike /\ r.option_type = pos.type}
    IN  IF current_row = {} THEN pos.entry_ltp ELSE (CHOOSE r \in current_row : TRUE).ltp

\* A slip the P&L could carry: the side of the leg not looked at.
pnl_of_as_buy(pos, rows) ==
    (current_ltp_of(pos, rows) - pos.entry_ltp) * pos.lot_size

\* scalping_data lines 2050-2053
pnl_of(pos, rows) ==
    IF action_of(pos) = "sell"
    THEN (pos.entry_ltp - current_ltp_of(pos, rows)) * pos.lot_size
    ELSE (current_ltp_of(pos, rows) - pos.entry_ltp) * pos.lot_size

\* The row of the positions table of one position.
position_row(pos, rows) ==
    [id |-> pos.id, strike |-> pos.strike, type |-> pos.type, entry_ltp |-> pos.entry_ltp,
     current_ltp |-> current_ltp_of(pos, rows), pnl |-> pnl_of(pos, rows),
     strategy |-> pos.strategy]

\* total_pnl += pnl over the loop of active_positions
RECURSIVE total_pnl_of(_, _)
total_pnl_of(active_positions, rows) ==
    IF active_positions = <<>> THEN 0
    ELSE pnl_of(Head(active_positions), rows) + total_pnl_of(Tail(active_positions), rows)

\* update_historical_data for every row of a frame, at one reading of the clock.
RECURSIVE update_rows(_, _, _, _)
update_rows(hd, index_name, rows, timestamp) ==
    IF rows = {} THEN hd
    ELSE LET r == CHOOSE x \in rows : TRUE
         IN  update_rows(update_historical_data(hd, index_name, r.strike_price,
                                                r.option_type, r.volume, r.oi, timestamp),
                         index_name, rows \ {r}, timestamp)

\* The JSON body of a poll.
PollReply(error, rows, spot, positions, active_count, total_pnl_num, strategy_count) ==
    [error |-> error, rows |-> rows, spot |-> spot, positions |-> positions,
     active_count |-> active_count, total_pnl_num |-> total_pnl_num,
     strategy_count |-> strategy_count]

\* A row of a table of changes: the contract and the two changes shown for it.
Changes(row, vol_change, oi_change) ==
    [strike |-> row.strike_price, type |-> row.option_type,
     vol_change |-> vol_change, oi_change |-> oi_change]

\* One of the pair get_change_data returned: None stays None.
part_of(change, k) == IF change = NoChange THEN NoChange ELSE <<change[k]>>

\* scalping_data lines 2102-2127: the changes of the opportunities table, each
\* read over its own interval.
opportunity_changes(hd, index_name, opp_df, vol_interval, oi_interval, now) ==
    {Changes(r, part_of(get_change_data(hd, index_name, r.strike_price, r.option_type,
                                        vol_interval, now), 1),
                part_of(get_change_data(hd, index_name, r.strike_price, r.option_type,
                                        oi_interval, now), 2)) : r \in opp_df}

\* scalping_data lines 2284-2297: the changes of the gamma table, both taken
\* from one get_change_data call made with vol_interval.  The chains here
\* have no more rows than the five the ranking keeps.
gamma_changes(hd, index_name, df, vol_interval, oi_interval, now) ==
    {Changes(r, part_of(get_change_data(hd, index_name, r.strike_price, r.option_type,
                                        vol_interval, now), 1),
                part_of(get_change_data(hd, index_name, r.strike_price, r.option_type,
                                        vol_interval, now), 2)) : r \in df}

\* The reply with its two tables of changes.
WithChanges(reply, opportunities, gamma) ==
    [error |-> reply.error, rows |-> reply.rows, spot |-> reply.spot,
     positions |-> reply.positions, active_count |-> reply.active_count,
     total_pnl_num |-> reply.total_pnl_num, strategy_count |-> reply.strategy_count,
     opportunities |-> opportunities, gamma |-> gamma]

\* "rows": ""
EmptyRows == [body |-> <<>>, totals |-> <<>>]

\* The body of a poll that carries no data: "spot_price": "-", "total_pnl_num": 0.
BlankReply(error) == PollReply(error, EmptyRows, NoSpot, <<>>, 0, 0, 0)

\* A slip the poll could carry: the bucket made when missing, as the add
\* handlers do.
ledger_after_poll_with_bucket(usp, username, day) == ensure_bucket(usp, username, day)

\* scalping_data lines 2029-2055: the bucket is read, nothing is assigned to
\* user_scalping_positions or to a position.
ledger_after_poll(usp, username, day) == usp

\* scalping_data: the live state of the caller's positions against the chain
\* just fetched, with the history of every contract of the chain updated on
\* the way (once for the strikes around the ATM strike, once more for all).
scalping_data_within(username, index_name, response, vol_interval, oi_interval, token_ok, max_polls) ==
    LET args == Args(index_name, "", vol_interval, oi_interval, response)
        answer(status, reply) ==
            op' = RequestWith("scalping_data", username, NoId, NoDate, status, args, reply)
    IN  /\ IF ~is_logged_in(username)
           THEN answer("error", BlankReply("not_logged_in"))
                /\ UNCHANGED <<historical_data, user_scalping_positions>>
           ELSE IF ~token_ok
           THEN answer("error", BlankReply("token_expired"))
                /\ UNCHANGED <<historical_data, user_scalping_positions>>
           ELSE IF fetch_outcome(response) = "raise"
           THEN \* except Exception as e: the error payload
                answer("error", BlankReply("exception"))
                /\ UNCHANGED <<historical_data, user_scalping_positions>>
           ELSE IF fetch_outcome(response) = "empty"
           THEN answer("no_data", BlankReply(""))
                /\ UNCHANGED <<historical_data, user_scalping_positions>>
           ELSE LET strikes_all == strikes_of(response)
                    spot_price == spot_price_of(response)
                    atm_index == atm_index_of(strikes_all, spot_price)
                    shown == strikes_to_show(strikes_all, atm_index, 2, 3)
                    opp_df == {r \in response.rows :
                                  \E j \in 1..Len(shown) : shown[j] = r.strike_price}
                    active_positions == Bucket(user_scalping_positions, username, today)
                    hd1 == update_rows(historical_data, index_name, opp_df, clock)
                    hd2 == update_rows(hd1, index_name, response.rows, clock)
                IN  /\ \A r \in response.rows :
                          Len(Series(hd2, index_name,
                                     get_strike_key(r.strike_price, r.option_type)))
                             <= 2 * max_polls
                    /\ historical_data' = hd2
                    /\ user_scalping_positions' =
                          ledger_after_poll(user_scalping_positions, username, today)
                    /\ answer("success",
                            WithChanges(
                              PollReply("", EmptyRows, spot_price,
                                        [i \in 1..Len(active_positions) |->
                                            position_row(active_positions[i], response.rows)],
                                        Len(active_positions),
                                        total_pnl_of(active_positions, response.rows),
                                        Cardinality({active_positions[i].strategy :
                                                        i \in 1..Len(active_positions)})),
                              opportunity_changes(hd1, index_name, opp_df,
                                                  vol_interval, oi_interval, clock),
                              gamma_changes(hd2, index_name, response.rows,
                                            vol_interval, oi_interval, clock)))
        /\ result' = NoResult
        /\ UNCHANGED <<files, today, session, clock, raceVars, appended, previous_data, sent>>

\* scalping_data for the index the other runs poll.
scalping_data(username, response, vol_interval, oi_interval, token_ok) ==
    scalping_data_within(username, HistIndex, response, vol_interval, oi_interval,
                         token_ok, MaxPolls)

\* The chain the positions of the live runs are entered on, and the chain a
\* later poll finds: the CE quotes at 200 and 300 have gone from 100 to 80 and
\* the PE at 200 is no longer quoted.
EntryChain ==
    Response("chain", {PollRow(100, "CE", 200, 1000, 500), PollRow(200, "CE", 100, 1000, 500),
                       PollRow(300, "CE", 100, 1000, 500), PollRow(200, "PE", 90, 1000, 500)},
             200)

LiveChain ==
    Response("chain", {PollRow(100, "CE", 210, 1200, 520), PollRow(200, "CE", 80, 1200, 520),
                       PollRow(300, "CE", 80, 1200, 520)},
             200)

Raises == Response("raises", {}, NoSpot)

DataNull == Response("data_null", {}, NoSpot)

NotDict == Response("not_dict", {}, NoSpot)

NoStrike == Response("no_strike", {}, NoSpot)

NoOptions == Response("chain", {}, NoSpot)

Failures == {Raises, DataNull, NotDict, NoStrike, NoOptions}

\* The polls of the scalping page: <<response, token_ok>>.
LivePolls ==
    ({EntryChain, LiveChain} \cup Failures) \X {TRUE} \cup {<<LiveChain, FALSE>>}

LiveStrategies == {"ratio", "straddle"}

NextLive ==
    \/ \E u \in Users : login(u)
    \/ \E u \in Users : add_position(u, 200, "CE", 100)
    \/ \E u \in Users, y \in LiveStrategies : add_strategy(u, y, EntryChain)
    \/ \E u \in Users, x \in LivePolls : scalping_data(u, x[1], 1, 1, x[2])

\* Positions entered and the scalping page polled.
SpecLive == Init /\ [][NextLive]_vars

\* The quote a poll's chain holds for a leg, and whether it holds one.
Quoted(pos, response) ==
    \E r \in response.rows : r.strike_price = pos.strike /\ r.option_type = pos.type

QuoteOf(pos, response) ==
    (CHOOSE r \in response.rows : r.strike_price = pos.strike /\ r.option_type = pos.type).ltp

\* The P&L of a leg against a poll's chain, as the claims state it.
StatedPnl(pos, response) ==
    LET cur == IF Quoted(pos, response) THEN QuoteOf(pos, response) ELSE pos.entry_ltp
    IN  IF pos.action = "sell" THEN (pos.entry_ltp - cur) * pos.lot_size
        ELSE (cur - pos.entry_ltp) * pos.lot_size

RECURSIVE SumPnl(_)
SumPnl(rows) == IF rows = <<>> THEN 0 ELSE rows[1].pnl + SumPnl(Tail(rows))

\* C16: a successful add_position appends exactly one position to the end of
\* the caller's current-day bucket, tagged MANUAL and valued by the P&L
\* computation as a BUY leg against every chain; the positions already in the
\* bucket keep their order and content and no other bucket changes.
C16_ManualAppendsOneBuyLeg ==
    [][Done(op', "add_position") =>
        LET before == Bucket(user_scalping_positions, op'.user, today)
            after  == Bucket(user_scalping_positions', op'.user, today)
            p      == after[Len(after)]
        IN  /\ Len(after) = Len(before) + 1
            /\ SubSeq(after, 1, Len(before)) = before
            /\ p.strategy = "MANUAL"
            /\ p.id = op'.id
            /\ \A x \in {EntryChain, LiveChain, NoOptions} :
                  pnl_of(p, x.rows) = StatedPnl([p EXCEPT !.action = "buy"], x)
            /\ \A u \in Users, d \in Days :
                  <<u, d>> # <<op'.user, today>> =>
                      Bucket(user_scalping_positions', u, d) = Bucket(user_scalping_positions, u, d)
    ]_vars

\* A poll shows a MANUAL position, last of a bucket of two, losing as a bought
\* leg loses when the quote falls.
C16_Witness ==
    /\ Done(op, "scalping_data")
    /\ Len(op.reply.positions) = 2
    /\ op.reply.positions[2].strategy = "MANUAL"
    /\ op.reply.positions[2].current_ltp < op.reply.positions[2].entry_ltp
    /\ op.reply.positions[2].pnl < 0

\* C17: in a successful poll each leg's P&L is (current - entry) * lot_size
\* for a BUY leg and (entry - current) * lot_size for a SELL leg, current
\* being the entry price when the chain has no quote for the leg, and the
\* total is the sum over the legs of the caller's current-day bucket.
C17_PnlByDirection ==
    Done(op, "scalping_data") =>
        LET bucket == Bucket(user_scalping_positions, op.user, today)
            shown  == op.reply.positions
        IN  /\ Len(shown) = Len(bucket)
            /\ \A i \in 1..Len(bucket) :
                  /\ shown[i].id = bucket[i].id
                  /\ shown[i].pnl = StatedPnl(bucket[i], op.args.response)
            /\ op.reply.total_pnl_num = SumPnl(shown)

\* Entry 100, current 80, lot 75: the sold leg gains 1500, the bought one
\* loses 1500.
C17_Witness ==
    /\ Done(op, "scalping_data")
    /\ \E i, j \in 1..Len(op.reply.positions) :
          LET bucket == Bucket(user_scalping_positions, op.user, today)
              b == op.reply.positions[i]
              z == op.reply.positions[j]
          IN  /\ bucket[i].action = "buy" /\ bucket[j].action = "sell"
              /\ b.entry_ltp = 100 /\ b.current_ltp = 80 /\ b.pnl = -1500
              /\ z.entry_ltp = 100 /\ z.current_ltp = 80 /\ z.pnl = 1500

\* C18: a scalping_data poll, whatever its outcome, leaves every user's
\* ledger as it was.
C18_PollLeavesLedger ==
    [][op'.name = "scalping_data" => user_scalping_positions' = user_scalping_positions]_vars

\* A poll of a caller who holds no bucket for the day has answered with rows.
C18_Witness ==
    /\ Done(op, "scalping_data")
    /\ ~(Has(user_scalping_positions, op.user)
         /\ Has(user_scalping_positions[op.user], today))
    /\ \E u \in Users : Bucket(user_scalping_positions, u, today) # <<>>

----------------------------------------------------------------------------
(* The option chain page: generate_rows and chain_rows_diff *)

\* A <td> of the rendered rows: what it shows and the number shown.
Cell(kind, value) == [kind |-> kind, value |-> value]

\* <td>-</td>
Dash == Cell("-", 0)

\* <td></td>
Blank == Cell("", 0)

\* format_to_crore: "0.00" for zero, else the value in units of 10,000,000
\* at two decimals, kept here as hundredths.
format_to_crore(value) ==
    IF value = 0 THEN Cell("0.00", 0) ELSE Cell("Cr", (value + 50000) \div 100000)

\* generate_rows lines 2599-2603: a change cell with its class, or the dash
\* when get_change_data gave None.
change_cell(change, column) ==
    IF change = NoChange THEN Dash
    ELSE Cell(IF change[column] > 0 THEN "profit"
              ELSE IF change[column] < 0 THEN "loss" ELSE "neutral",
              change[column])

\* DataFrame[c].sum()
RECURSIVE sum_col(_, _)
sum_col(rows, c) ==
    IF rows = {} THEN 0
    ELSE LET r == CHOOSE x \in rows : TRUE IN r[c] + sum_col(rows \ {r}, c)

\* The cells of one side of a strike's row, in the order of lr_cols: ltp,
\* volume, vol_change, oi, oi_change.  hd already holds this poll's sample of
\* the contract.
side_cells(hd, index_name, df, strike, option_type, vol_interval, oi_interval, now) ==
    LET here == {r \in df : r.strike_price = strike /\ r.option_type = option_type}
    IN  IF here = {} THEN <<Blank, Blank, Dash, Blank, Dash>>
        ELSE LET r == CHOOSE x \in here : TRUE
             IN  <<Cell("raw", r.ltp),
                   format_to_crore(r.volume),
                   change_cell(get_change_data(hd, index_name, strike, option_type,
                                               vol_interval, now), 1),
                   format_to_crore(r.oi),
                   change_cell(get_change_data(hd, index_name, strike, option_type,
                                               oi_interval, now), 2)>>

\* One of the five totals rows: the sums of ltp, volume and oi.
totals_row(label, df) ==
    [label |-> label, ltp |-> Cell("2f", sum_col(df, "ltp")),
     volume |-> format_to_crore(sum_col(df, "volume")),
     oi |-> format_to_crore(sum_col(df, "oi"))]

\* pcr is None
NoPcr == -1

\* generate_market_insights: the spot, the OI totals, the put-call ratio in
\* hundredths, the volume trend and the trend bias.  The strongest strikes and
\* the two trends read from columns the chains here do not carry are left out.
generate_market_insights(ce_df, pe_df, spot_price) ==
    LET total_ce_oi == sum_col(ce_df, "oi")
        total_pe_oi == sum_col(pe_df, "oi")
        pcr == IF total_ce_oi > 0
               THEN (200 * total_pe_oi + total_ce_oi) \div (2 * total_ce_oi) ELSE NoPcr
    IN  [kind |-> "insights", spot |-> spot_price,
         total_ce_oi |-> format_to_crore(total_ce_oi),
         total_pe_oi |-> format_to_crore(total_pe_oi),
         pcr |-> pcr,
         volume_trend |-> IF sum_col(ce_df, "volume") > sum_col(pe_df, "volume")
                          THEN "up" ELSE "down",
         trend_bias |-> IF pcr = NoPcr THEN ""
                        ELSE IF pcr > 100 THEN "bearish"
                        ELSE IF pcr < 80 THEN "bullish" ELSE "neutral"]

\* "<p>No option chain data available.</p>", and the empty analysis of the
\* error replies.
NoDataAnalysis == [kind |-> "no_data"]

NoAnalysis == [kind |-> ""]

\* generate_rows at time `now` on a response it can read: the rows, the spot,
\* the analysis and the time series after the poll.  Each shown contract gets
\* its sample before its change cells are read; the series of the contracts
\* are apart, so the samples are written first here.
generate_rows(hd, index_name, response, vol_interval, oi_interval, now) ==
    IF fetch_outcome(response) = "empty"
    THEN [rows |-> EmptyRows, spot |-> NoSpot, analysis |-> NoDataAnalysis, hd |-> hd]
    ELSE LET strikes_all == strikes_of(response)
             spot_price == spot_price_of(response)
             atm_index == atm_index_of(strikes_all, spot_price)
             atm_strike == strikes_all[atm_index + 1]
             shown == strikes_to_show(strikes_all, atm_index, 3, 4)
             df == {r \in response.rows : \E j \in 1..Len(shown) : shown[j] = r.strike_price}
             ce_df == {r \in df : r.option_type = "CE"}
             pe_df == {r \in df : r.option_type = "PE"}
             hd1 == update_rows(hd, index_name, df, now)
             cells(strike, option_type) ==
                 side_cells(hd1, index_name, df, strike, option_type,
                            vol_interval, oi_interval, now)
         IN  [rows |->
                 [body |-> [j \in 1..Len(shown) |->
                               [strike |-> shown[j], atm |-> shown[j] = atm_strike,
                                ce |-> cells(shown[j], "CE"), pe |-> cells(shown[j], "PE")]],
                  totals |-> <<totals_row("CE TOTAL", ce_df),
                               totals_row("PE TOTAL", pe_df),
                               totals_row("CE ITM TOTAL",
                                          {r \in ce_df : r.strike_price < spot_price}),
                               totals_row("PE ITM TOTAL",
                                          {r \in pe_df : r.strike_price > spot_price}),
                               totals_row("ALL TOTAL", ce_df \cup pe_df)>>],
              spot |-> spot_price,
              analysis |-> generate_market_insights(ce_df, pe_df, spot_price),
              hd |-> hd1]

\* chain_rows_diff line 2529: previous_data.get(index_name) != current_data["rows"]
rows_differ(previous, index_name, rows) ==
    IF Has(previous, index_name) THEN previous[index_name] # rows ELSE TRUE

\* chain_rows_diff lines 2528-2530: the rows sent
diff_rows_of(previous, index_name, rows) ==
    IF rows_differ(previous, index_name, rows) THEN rows ELSE EmptyRows

\* A slip the differ could carry: the rows sent are not kept.
previous_after_never_stored(previous, index_name, rows) == previous

\* chain_rows_diff lines 2529-2531: the rows kept
previous_after(previous, index_name, rows) ==
    IF rows_differ(previous, index_name, rows) THEN Put(previous, index_name, rows)
    ELSE previous

\* The JSON of chain_rows_diff.
DiffReply(error, rows, spot, analysis) ==
    [error |-> error, rows |-> rows, spot |-> spot, analysis |-> analysis]

\* The rows payloads a viewer has been sent in full for an index.
SentTo(log, username, index_name) ==
    IF Has(log, <<username, index_name>>) THEN log[<<username, index_name>>] ELSE {}

\* chain_rows_diff: one poll of the option chain page.  generate_rows is
\* called outside any try: what it raises leaves the handler.
chain_rows_diff(username, index_name, response, vol_interval, oi_interval, token_ok) ==
    LET args == Args(index_name, "", vol_interval, oi_interval, response)
        answer(status, reply) ==
            op' = RequestWith("chain_rows_diff", username, NoId, NoDate, status, args, reply)
    IN  /\ IF ~is_logged_in(username)
           THEN answer("error", DiffReply("not_logged_in", EmptyRows, NoSpot, NoAnalysis))
                /\ UNCHANGED <<historical_data, previous_data, sent>>
           ELSE IF ~token_ok
           THEN answer("error", DiffReply("token_expired", EmptyRows, NoSpot, NoAnalysis))
                /\ UNCHANGED <<historical_data, previous_data, sent>>
           ELSE IF fetch_outcome(response) = "raise"
           THEN answer("exception", NoReply)
                /\ UNCHANGED <<historical_data, previous_data, sent>>
           ELSE LET made == generate_rows(historical_data, index_name, response,
                                          vol_interval, oi_interval, clock)
                IN  /\ \A r \in response.rows :
                          Len(Series(made.hd, index_name,
                                     get_strike_key(r.strike_price, r.option_type)))
                             <= MaxSamples
                    /\ historical_data' = made.hd
                    /\ previous_data' = previous_after(previous_data, index_name, made.rows)
                    /\ sent' = IF rows_differ(previous_data, index_name, made.rows)
                               THEN Put(sent, <<username, index_name>>,
                                        SentTo(sent, username, index_name) \cup {made.rows})
                               ELSE sent
                    /\ answer(IF fetch_outcome(response) = "empty" THEN "no_data" ELSE "success",
                              DiffReply("", diff_rows_of(previous_data, index_name, made.rows),
                                        made.spot, made.analysis))
        /\ result' = NoResult
        /\ UNCHANGED <<ledgerVars, clock, raceVars, appended>>

\* The chains of the option chain page: on the second the volume at 200 CE
\* has grown and its quote has moved.
ChainA ==
    Response("chain", {PollRow(200, "CE", 100, 1500000, 60000),
                       PollRow(200, "PE", 90, 1400000, 70000),
                       PollRow(300, "CE", 40, 0, 0)},
             210)

ChainB ==
    Response("chain", {PollRow(200, "CE", 105, 1600000, 60000),
                       PollRow(200, "PE", 90, 1400000, 70000),
                       PollRow(300, "CE", 40, 0, 0)},
             210)

OtherIndex == "BANKNIFTY"

\* The polls of the option chain page: <<index_name, response, token_ok>>.
DiffPolls ==
    ({HistIndex} \X ({ChainA, ChainB} \cup Failures) \X {TRUE})
        \cup {<<HistIndex, ChainA, FALSE>>, <<OtherIndex, NoOptions, TRUE>>}

NextDiff ==
    \/ login("alice")
    \/ \E x \in DiffPolls : chain_rows_diff("alice", x[1], x[2], 1, 1, x[3])
    \/ \E r \in Failures : scalping_data("alice", r, 1, 1, TRUE)
    \/ HistTick(TickMax)

\* The option chain page polled while time passes.
SpecDiff == Init /\ [][NextDiff]_vars

C13_DifferKeepsLastEmitted ==
    [][(op'.name = "chain_rows_diff" /\ op'.status \in {"success", "no_data"}) =>
        LET index_name == op'.args.index_name
            computed == generate_rows(historical_data, index_name, op'.args.response,
                                      op'.args.vol_interval, op'.args.oi_interval,
                                      clock).rows
        IN  IF Has(previous_data, index_name) /\ previous_data[index_name] = computed
            THEN /\ op'.reply.rows = EmptyRows
                 /\ previous_data' = previous_data
            ELSE /\ op'.reply.rows = computed
                 /\ Has(previous_data', index_name)
                 /\ previous_data'[index_name] = computed
                 /\ \A x \in DOMAIN previous_data' \ {index_name} :
                       Has(previous_data, x) /\ previous_data'[x] = previous_data[x]
    ]_vars

\* A poll found the rows it rendered equal to the ones kept and sent none,
\* while another index keeps rows of its own.
C13_Witness ==
    /\ Done(op, "chain_rows_diff")
    /\ op.reply.rows = EmptyRows
    /\ Has(previous_data, op.args.index_name)
    /\ previous_data[op.args.index_name] # EmptyRows
    /\ \E x \in DOMAIN previous_data :
          x # op.args.index_name /\ previous_data[x] # previous_data[op.args.index_name]

----------------------------------------------------------------------------
(* calculate_gamma_exposure *)

\* The scores are quotients of the inputs: <<numerator, denominator>> with a
\* positive denominator.
Rat(n, d) == IF d < 0 THEN <<-n, -d>> ELSE <<n, d>>

RatInt(n) == <<n, 1>>

RatAdd(a, b) == <<a[1] * b[2] + b[1] * a[2], a[2] * b[2]>>

RatScale(a, k) == <<a[1] * k, a[2]>>

RatLeq(a, b) == a[1] * b[2] <= b[1] * a[2]

RatMax(a, b) == IF RatLeq(a, b) THEN b ELSE a

RatMin(a, b) == IF RatLeq(a, b) THEN a ELSE b

\* A change that is None, and one that is known.
None == <<>>

Some(v) == <<v>>

\* min(abs(change) / total * 100, 30), or 0 when total is not positive or the
\* change is None.
change_score(total, change) ==
    IF total > 0 /\ change # None
    THEN RatMin(Rat(Abs(change[1]) * 100, total), RatInt(30))
    ELSE RatInt(0)

\* if option_type == "CE": ... else: ...
type_score(spot_price, strike_price, option_type) ==
    IF option_type = "CE"
    THEN (IF strike_price <= spot_price THEN 10 ELSE 5)
    ELSE (IF strike_price >= spot_price THEN 10 ELSE 5)

\* max(0, 1 - distance_from_atm) * 30.  With a zero spot the division gives
\* inf or nan on numpy floats and max(0, .) keeps the 0.
proximity_score(spot_price, strike_price) ==
    IF spot_price = 0 THEN RatInt(0)
    ELSE RatScale(RatMax(RatInt(0),
                         RatAdd(RatInt(1),
                                Rat(-Abs(spot_price - strike_price), spot_price))),
                  30)

\* calculate_gamma_exposure.  With a zero spot the division raises
\* ZeroDivisionError on Python numbers, and the bare except returns 0; on a
\* numpy strike it warns and goes on.
calculate_gamma_exposure(spot_price, strike_price, option_type, volume, volume_change, oi, oi_change, numpy_strike) ==
    IF spot_price = 0 /\ ~numpy_strike THEN RatInt(0)
    ELSE RatAdd(RatAdd(proximity_score(spot_price, strike_price),
                       change_score(volume, volume_change)),
                RatAdd(change_score(oi, oi_change),
                       RatInt(type_score(spot_price, strike_price, option_type))))

GammaArgs(spot_price, strike_price, option_type, volume, volume_change, oi, oi_change, numpy_strike) ==
    [spot_price |-> spot_price, strike_price |-> strike_price, option_type |-> option_type,
     volume |-> volume, volume_change |-> volume_change, oi |-> oi,
     oi_change |-> oi_change, numpy_strike |-> numpy_strike]

\* The one call of a run of calculate_gamma_exposure; nothing of the
\* program's state is read or written.
GammaCall(x) ==
    /\ op = NoRequest
    /\ op' = RequestWith("calculate_gamma_exposure", "", NoId, NoDate, "success", x,
                         calculate_gamma_exposure(x.spot_price, x.strike_price,
                                                  x.option_type, x.volume, x.volume_change,
                                                  x.oi, x.oi_change, x.numpy_strike))
    /\ UNCHANGED <<ledgerVars, clock, raceVars, histVars, previous_data, sent>>

GammaSpots == {-10, 0, 10, 20}

GammaStrikes == {0, 10, 30, 100}

GammaTotals == {0, 10}

GammaChanges == {None, Some(0), Some(-1), Some(50)}

GammaInputs ==
    {GammaArgs(s, k, t, v, vc, o, oc, n) :
        s \in GammaSpots, k \in GammaStrikes, t \in OptionTypes, v \in GammaTotals,
        vc \in GammaChanges, o \in GammaTotals, oc \in GammaChanges, n \in BOOLEAN}

NextGamma == \E x \in GammaInputs : GammaCall(x)

\* calculate_gamma_exposure called on every input of GammaInputs.
SpecGamma == Init /\ [][NextGamma]_vars

\* C19: calculate_gamma_exposure returns a value within [0, 100] for every
\* input, a spot at or below zero, far strikes, zero volume or open interest
\* and None changes included.
C19_ScoreWithinRange ==
    op.name = "calculate_gamma_exposure" =>
        RatLeq(RatInt(0), op.reply) /\ RatLeq(op.reply, RatInt(100))

----------------------------------------------------------------------------
(* get_best_options *)

\* A row of the DataFrame get_best_options is given.
Contract(strike_price, option_type) ==
    [strike_price |-> strike_price, option_type |-> option_type]

\* The discount column: (fair_value - ltp) / fair_value * 100.  The pricing
\* behind it is not computed here; the order it gives the rows is an input,
\* rising or falling with the strike, or the same for every row.
discount_of(row, order) ==
    IF order = "rising" THEN row.strike_price
    ELSE IF order = "falling" THEN -row.strike_price ELSE 0

\* df[mask]: the rows that pass, in the order of the frame.
RECURSIVE select_rows(_, _)
select_rows(df, keep) ==
    IF df = <<>> THEN <<>>
    ELSE IF Head(df) \in keep THEN <<Head(df)>> \o select_rows(Tail(df), keep)
    ELSE select_rows(Tail(df), keep)

RowsOf(df) == {df[i] : i \in 1..Len(df)}

\* df[df["option_type"] == option_type]
filtered_df(df, option_type) ==
    select_rows(df, {r \in RowsOf(df) : r.option_type = option_type})

\* A slip the strike filter could carry: the two bounds swapped.
atm_itm_df_swapped(filtered, spot_price, option_type) ==
    IF option_type = "PE"
    THEN select_rows(filtered, {r \in RowsOf(filtered) : r.strike_price <= spot_price + 100})
    ELSE select_rows(filtered, {r \in RowsOf(filtered) : r.strike_price >= spot_price - 100})

\* get_best_options lines 132-137: the strike filter of each kind
atm_itm_df(filtered, spot_price, option_type) ==
    IF option_type = "PE"
    THEN select_rows(filtered, {r \in RowsOf(filtered) : r.strike_price >= spot_price - 100})
    ELSE select_rows(filtered, {r \in RowsOf(filtered) : r.strike_price <= spot_price + 100})

\* sort_values("discount", ascending=False): kind is left at its default,
\* quicksort, which does not fix the order of rows of equal discount; every
\* arrangement in falling discount is a result the sort can give.
sort_values(rows, order) ==
    {sorted \in [1..Len(rows) -> RowsOf(rows)] :
        /\ \A i, j \in 1..Len(rows) : i # j => sorted[i] # sorted[j]
        /\ \A i \in 1..(Len(rows) - 1) :
              discount_of(sorted[i], order) >= discount_of(sorted[i + 1], order)}

\* .head(limit)
head_of(sorted, limit) == SubSeq(sorted, 1, Min2(limit, Len(sorted)))

\* get_best_options: the results it can give.  A frame it cannot read raises
\* inside the try and the empty frame is returned.
get_best_options(df, readable, spot_price, option_type, order, limit) ==
    IF ~readable THEN {<<>>}
    ELSE {head_of(sorted, limit) :
            sorted \in sort_values(atm_itm_df(filtered_df(df, option_type),
                                              spot_price, option_type), order)}

BestArgs(df, readable, spot_price, option_type, order, limit) ==
    [df |-> df, readable |-> readable, spot_price |-> spot_price,
     option_type |-> option_type, order |-> order, limit |-> limit]

\* The one call of a run of get_best_options; nothing of the program's state
\* is read or written.
BestCall(x) ==
    /\ op = NoRequest
    /\ \E best \in get_best_options(x.df, x.readable, x.spot_price, x.option_type,
                                    x.order, x.limit) :
          op' = RequestWith("get_best_options", "", NoId, NoDate, "success", x, best)
    /\ UNCHANGED <<ledgerVars, clock, raceVars, histVars, previous_data, sent>>

BestStrikes == {50, 100, 300, 350}

BestContracts == {Contract(k, t) : k \in BestStrikes, t \in OptionTypes}

\* The contracts of a frame by rising strike, the call of a strike before its put.
RECURSIVE FrameOf(_)
FrameOf(S) ==
    IF S = {} THEN <<>>
    ELSE LET first == CHOOSE r \in S : \A x \in S :
                          \/ r.strike_price < x.strike_price
                          \/ r.strike_price = x.strike_price
                             /\ (r.option_type = "CE" \/ x.option_type = "PE")
         IN  <<first>> \o FrameOf(S \ {first})

BestFrames == {FrameOf(S) : S \in SUBSET BestContracts}

BestSpots == {200, 250}

BestOrders == {"rising", "falling", "level"}

BestLimits == {1, 5}

BestInputs ==
    {BestArgs(df, TRUE, s, t, o, n) :
        df \in BestFrames, s \in BestSpots, t \in OptionTypes,
        o \in BestOrders, n \in BestLimits}
      \cup {BestArgs(FrameOf(BestContracts), FALSE, 200, t, "level", 5) : t \in OptionTypes}

NextBest == \E x \in BestInputs : BestCall(x)

\* get_best_options called on every input of BestInputs.
SpecBest == Init /\ [][NextBest]_vars

\* C20: get_best_options returns only contracts of the requested kind; for
\* PE and spot S none has a strike below S - 100, for CE none has a strike
\* above S + 100.
C20_BestWithinKindAndBound ==
    op.name = "get_best_options" =>
        \A r \in RowsOf(op.reply) :
            /\ r \in RowsOf(op.args.df)
            /\ r.option_type = op.args.option_type
            /\ op.args.option_type = "PE" => r.strike_price >= op.args.spot_price - 100
            /\ op.args.option_type = "CE" => r.strike_price <= op.args.spot_price + 100

\* A call for PE at spot 200 returned the put at 100, the bound itself, from
\* a frame that also held the put at 50 and a call.
C20_Witness ==
    /\ op.name = "get_best_options"
    /\ op.args.option_type = "PE" /\ op.args.spot_price = 200
    /\ Contract(100, "PE") \in RowsOf(op.reply)
    /\ Contract(50, "PE") \in RowsOf(op.args.df)
    /\ Contract(100, "CE") \in RowsOf(op.args.df)
    /\ op.args.order = "falling"

\* The place of a row in a frame.
PlaceIn(df, r) == CHOOSE i \in 1..Len(df) : df[i] = r

\* C21: get_best_options returns at most `limit` contracts, the filtered
\* ones of highest discount, in falling order of discount, and contracts of
\* equal discount stand in the order the frame gave them.
C21_TopByDiscountStable ==
    (op.name = "get_best_options" /\ op.args.readable) =>
        LET x == op.args
            best == op.reply
            kept == atm_itm_df(filtered_df(x.df, x.option_type), x.spot_price, x.option_type)
        IN  /\ Len(best) = Min2(x.limit, Len(kept))
            /\ RowsOf(best) \subseteq RowsOf(kept)
            /\ \A r \in RowsOf(best), y \in RowsOf(kept) \ RowsOf(best) :
                  discount_of(r, x.order) >= discount_of(y, x.order)
            /\ \A i, j \in 1..Len(best) :
                  i < j =>
                      \/ discount_of(best[i], x.order) > discount_of(best[j], x.order)
                      \/ /\ discount_of(best[i], x.order) = discount_of(best[j], x.order)
                         /\ PlaceIn(x.df, best[i]) < PlaceIn(x.df, best[j])
                         /\ \A y \in RowsOf(kept) \ RowsOf(best) :
                               discount_of(y, x.order) = discount_of(best[j], x.order)
                                  => PlaceIn(x.df, best[j]) < PlaceIn(x.df, y)

----------------------------------------------------------------------------
(* calculate_option_fair_value and calculate_profit_probability *)

RatEq(a, b) == a[1] * b[2] = b[1] * a[2]

\* t = max(days_to_expiry / 365.0, 0.01): the days in years, and 0.01 of a
\* year as the least.
years_to_expiry(days_to_expiry) ==
    RatMax(Rat(days_to_expiry[1], days_to_expiry[2] * 365), Rat(1, 100))

\* What a call gave: whether an exception left it, the value returned, and the
\* t it worked with.
Priced(raised, value, t) == [raised |-> raised, value |-> value, t |-> t]

\* A slip the return could carry: the value not held at zero.
clamp_fair_value_absent(fair_value) == fair_value

\* max(fair_value, 0)
clamp_fair_value(fair_value) == Max2(fair_value, 0)

\* The body of calculate_option_fair_value inside its try: "raise" where
\* math.log meets a quotient that is not positive or the division meets
\* volatility * sqrt(t) = 0, else the value returned.  The value of the
\* Black-Scholes formula is not computed here; it is the input fair_value.
fair_value_body(spot_price, strike_price, volatility, fair_value) ==
    IF strike_price > 0
    THEN IF spot_price <= 0 THEN "raise"
         ELSE IF volatility = 0 THEN "raise"
         ELSE "value"
    ELSE "zero"

\* calculate_option_fair_value: the bare except turns what the body raises
\* into 0.
calculate_option_fair_value(spot_price, strike_price, days_to_expiry, volatility, fair_value) ==
    LET t == years_to_expiry(days_to_expiry)
        body == fair_value_body(spot_price, strike_price, volatility, fair_value)
    IN  IF body = "value" THEN Priced(FALSE, clamp_fair_value(fair_value), t)
        ELSE IF body = "zero" THEN Priced(FALSE, 0, t)
        ELSE \* except: return 0
             Priced(FALSE, 0, t)

\* calculate_profit_probability, in hundredths: 50 when the strike or the
\* spot is not positive or the body raises; else the input probability, the
\* normal CDF not being computed here.
calculate_profit_probability(spot_price, strike_price, days_to_expiry, volatility, probability) ==
    LET t == years_to_expiry(days_to_expiry)
    IN  IF strike_price > 0 /\ spot_price > 0 /\ volatility # 0
        THEN Priced(FALSE, probability, t)
        ELSE Priced(FALSE, 50, t)

PriceArgs(spot_price, strike_price, days_to_expiry, volatility, raw) ==
    [spot_price |-> spot_price, strike_price |-> strike_price,
     days_to_expiry |-> days_to_expiry, volatility |-> volatility, raw |-> raw]

\* The one call of a run of calculate_option_fair_value.
FairValueCall(x) ==
    /\ op = NoRequest
    /\ op' = RequestWith("calculate_option_fair_value", "", NoId, NoDate, "success", x,
                         calculate_option_fair_value(x.spot_price, x.strike_price,
                                                     x.days_to_expiry, x.volatility, x.raw))
    /\ UNCHANGED <<ledgerVars, clock, raceVars, histVars, previous_data, sent>>

\* The one call of a run of calculate_profit_probability.
ProbabilityCall(x) ==
    /\ op = NoRequest
    /\ op' = RequestWith("calculate_profit_probability", "", NoId, NoDate, "success", x,
                         calculate_profit_probability(x.spot_price, x.strike_price,
                                                      x.days_to_expiry, x.volatility, x.raw))
    /\ UNCHANGED <<ledgerVars, clock, raceVars, histVars, previous_data, sent>>

PriceSpots == {-10, 0, 100}

PriceStrikes == {-5, 0, 100}

\* Days to expiry: none, half a day, and whole days up to a week.
PriceDays == {Rat(0, 1), Rat(1, 2), Rat(1, 1), Rat(3, 1), Rat(4, 1), Rat(7, 1)}

\* Volatility in hundredths.
PriceVolatilities == {0, 20}

PriceValues == {-5, 0, 7}

PriceProbabilities == {0, 37, 100}

NextPrice ==
    \/ \E s \in PriceSpots, k \in PriceStrikes, d \in PriceDays, v \in PriceVolatilities,
          f \in PriceValues : FairValueCall(PriceArgs(s, k, d, v, f))
    \/ \E s \in PriceSpots, k \in PriceStrikes, d \in PriceDays, v \in PriceVolatilities,
          q \in PriceProbabilities : ProbabilityCall(PriceArgs(s, k, d, v, q))

\* The two pricing functions called on every input of the sets above.
SpecPrice == Init /\ [][NextPrice]_vars

\* C22: calculate_option_fair_value never returns a negative value and never
\* raises; it returns 0 when the strike is not positive, and 0 when the spot
\* is not positive or the volatility is 0.
C22_FairValueNeverNegative ==
    op.name = "calculate_option_fair_value" =>
        /\ ~op.reply.raised
        /\ op.reply.value >= 0
        /\ op.args.strike_price <= 0 => op.reply.value = 0
        /\ op.args.spot_price <= 0 => op.reply.value = 0
        /\ op.args.volatility = 0 => op.reply.value = 0
        /\ (op.args.strike_price > 0 /\ op.args.spot_price > 0 /\ op.args.volatility # 0)
              => op.reply.value = (IF op.args.raw < 0 THEN 0 ELSE op.args.raw)

\* The formula gave a negative value on a sound input and 0 came back.
C22_Witness ==
    /\ op.name = "calculate_option_fair_value"
    /\ op.args.strike_price > 0 /\ op.args.spot_price > 0 /\ op.args.volatility # 0
    /\ op.args.raw < 0
    /\ op.reply.value = 0

\* C23: both computations work with t = max(days / 365, 1 / 365): days / 365
\* for every days >= 1, and 1 / 365 below one day.
C23_YearsFromDays ==
    op.name \in {"calculate_option_fair_value", "calculate_profit_probability"} =>
        LET days == op.args.days_to_expiry
        IN  IF RatLeq(RatInt(1), days)
            THEN RatEq(op.reply.t, Rat(days[1], days[2] * 365))
            ELSE RatEq(op.reply.t, Rat(1, 365))

----------------------------------------------------------------------------
(* Positions and polls of two indices *)

\* The polls of the scalping page over two indices: <<index_name, response>>.
\* The chain of the other index quotes the call at 200 as well, at 80.
IndexPolls ==
    {<<HistIndex, EntryChain>>, <<HistIndex, LiveChain>>,
     <<OtherIndex, LiveChain>>, <<OtherIndex, NoOptions>>}

NextIndex ==
    \/ \E u \in Users : login(u)
    \/ \E u \in Users : add_position_on(u, HistIndex, 200, "CE", 100)
    \/ \E u \in Users, x \in IndexPolls :
          scalping_data_within(u, x[1], x[2], 1, 1, TRUE, MaxPolls)

\* Positions opened on one index, the scalping page polled for two.
SpecIndex == Init /\ [][NextIndex]_vars

\* C24: a position is priced against the quote of the index, strike and kind
\* it was opened on; a poll for another index does not price it with that
\* index's quote for an equal strike and kind.  Every position of these runs
\* is opened on HistIndex.
C24_PricedOnOwnIndex ==
    (Done(op, "scalping_data") /\ op.args.index_name # HistIndex) =>
        \A i \in 1..Len(op.reply.positions) :
            /\ op.reply.positions[i].current_ltp = op.reply.positions[i].entry_ltp
            /\ op.reply.positions[i].pnl = 0

\* C25: a poll cycle appends at most one sample to the series of any
\* contract key.
C25_OneSamplePerCycle ==
    [][op'.name \in {"scalping_data", "chain_rows_diff"} =>
        \A x \in DOMAIN historical_data' :
            \A key \in DOMAIN historical_data'[x] :
                Len(historical_data'[x][key]) <= Len(Series(historical_data, x, key)) + 1
    ]_vars

\* C26: an admin's exit_position for an id held in another user's
\* current-day bucket removes that position from that user's bucket.
C26_AdminExitRemovesOthers ==
    [][(Done(op', "exit_position") /\ is_admin(op'.user)) =>
        \A u \in Users \ {op'.user} :
            HasId(Bucket(user_scalping_positions, u, today), op'.id)
                => ~HasId(Bucket(user_scalping_positions', u, today), op'.id)
    ]_vars

\* C29: within a (user, day) bucket no two positions share an id.
C29_IdsUniqueInBucket ==
    \A u \in Users, d \in Days :
        LET bucket == Bucket(user_scalping_positions, u, d)
        IN  \A i, j \in 1..Len(bucket) : bucket[i].id = bucket[j].id => i = j

----------------------------------------------------------------------------
(* get_change_data on one request's thread while another request appends *)

ScanKey == get_strike_key(HistStrike, "CE")

\* The appends the deque of the key has seen: the state counter its iterators
\* compare.
deque_state == Len(Entry(appended, ScanKey))

\* What a get_change_data call in progress holds.
Scan(minutes, now, begin_len, current, left, at, state, old_data, outcome, value) ==
    [minutes |-> minutes, now |-> now, begin_len |-> begin_len, current |-> current,
     left |-> left, at |-> at, state |-> state, old_data |-> old_data,
     outcome |-> outcome, value |-> value]

\* get_change_data lines 474-487: the guards and the target time.  A series
\* too short answers at once.
ScanBegin(t, minutes) ==
    /\ pc[t] = "idle"
    /\ Len(SeriesNow("CE")) >= 2
    /\ pc' = [pc EXCEPT ![t] = "begun"]
    /\ local' = [local EXCEPT ![t] =
                    Scan(minutes, clock, Len(SeriesNow("CE")), <<>>, 0, 0, 0, <<>>, "", NoChange)]
    /\ op' = NoRequest
    /\ result' = NoResult
    /\ UNCHANGED <<ledgerVars, clock, pre, historical_data, appended, previous_data, sent>>

\* get_change_data line 490: data_queue[-1]
ScanCurrent(t) ==
    /\ pc[t] = "begun"
    /\ pc' = [pc EXCEPT ![t] = "current"]
    /\ local' = [local EXCEPT ![t].current = SeriesNow("CE")[Len(SeriesNow("CE"))]]
    /\ op' = NoRequest
    /\ result' = NoResult
    /\ UNCHANGED <<ledgerVars, clock, pre, historical_data, appended, previous_data, sent>>

\* get_change_data line 494: the for loop makes the deque's iterator, which
\* keeps the length and the state counter of that moment.
ScanIter(t) ==
    /\ pc[t] = "current"
    /\ pc' = [pc EXCEPT ![t] = "scanning"]
    /\ local' = [local EXCEPT ![t].left = Len(SeriesNow("CE")), ![t].at = 1,
                              ![t].state = deque_state]
    /\ op' = NoRequest
    /\ result' = NoResult
    /\ UNCHANGED <<ledgerVars, clock, pre, historical_data, appended, previous_data, sent>>

\* The end of the call: the delta from old_data to current.
scan_done(call, old_data) ==
    [call EXCEPT !.old_data = old_data, !.outcome = "returned",
                 !.value = <<call.current[2] - old_data[2], call.current[3] - old_data[3]>>]

\* get_change_data lines 494-501: one turn of the loop.  The iterator ends
\* when it has given as many items as the deque held when it was made; before
\* giving an item it raises RuntimeError (deque mutated during iteration) if
\* the state counter has moved.  Nothing in get_change_data catches it.
ScanStep(t) ==
    /\ pc[t] = "scanning"
    /\ LET call == local[t]
           q == SeriesNow("CE")
           target_time == target_time_of(call.now, call.minutes)
       IN  IF call.left = 0
           THEN /\ local' = [local EXCEPT ![t] = scan_done(call, q[1])]
                /\ pc' = [pc EXCEPT ![t] = "scanned"]
           ELSE IF call.state # deque_state
           THEN /\ local' = [local EXCEPT ![t].outcome = "raised"]
                /\ pc' = [pc EXCEPT ![t] = "scanned"]
           ELSE IF q[call.at][1] >= target_time
           THEN /\ local' = [local EXCEPT ![t] = scan_done(call, q[call.at])]
                /\ pc' = [pc EXCEPT ![t] = "scanned"]
           ELSE /\ local' = [local EXCEPT ![t].left = call.left - 1, ![t].at = call.at + 1]
                /\ pc' = pc
    /\ op' = NoRequest
    /\ result' = NoResult
    /\ UNCHANGED <<ledgerVars, clock, pre, historical_data, appended, previous_data, sent>>

\* The request of the call ends.
ScanEnd(t) ==
    /\ pc[t] = "scanned"
    /\ pc' = [pc EXCEPT ![t] = "idle"]
    /\ local' = [local EXCEPT ![t] = NoCall]
    /\ op' = Request("get_change_data", "", NoId, NoDate,
                     IF local[t].outcome = "raised" THEN "exception" ELSE "success")
    /\ result' = Result(HistIndex, HistStrike, "CE", local[t].minutes, local[t].now,
                        local[t].value)
    /\ UNCHANGED <<ledgerVars, clock, pre, historical_data, appended, previous_data, sent>>

NextScan ==
    \/ HistTick(TickMax)
    \/ \E q \in HistQuotes : HistUpdate("CE", q)
    \/ \E t \in Threads : ScanBegin(t, 1)
    \/ \E t \in Threads : ScanCurrent(t)
    \/ \E t \in Threads : ScanIter(t)
    \/ \E t \in Threads : ScanStep(t)
    \/ \E t \in Threads : ScanEnd(t)

\* Requests scanning a series while other requests append to it.
SpecScan == Init /\ [][NextScan]_vars

\* C28: a get_change_data scan that overlaps an append to its key ends
\* without failure and returns the delta of a series the key held at one
\* moment of the call: the one it began with, or one after an append.
C28_ScanSafeUnderAppend ==
    \A t \in Threads :
        pc[t] = "scanned" =>
            /\ local[t].outcome = "returned"
            /\ \E n \in local[t].begin_len..Len(SeriesNow("CE")) :
                  local[t].value =
                      DeltaSince(SubSeq(SeriesNow("CE"), 1, n),
                                 target_time_of(local[t].now, local[t].minutes))

----------------------------------------------------------------------------
(* Polls with two lookback intervals *)

\* <<vol_interval, oi_interval>> in minutes.
Windows == {<<1, 2>>, <<2, 1>>}

NextWindows ==
    \/ login("alice")
    \/ \E c \in {EntryChain, LiveChain}, w \in Windows :
          scalping_data_within("alice", HistIndex, c, w[1], w[2], TRUE, MaxPolls + 1)
    \/ \E w \in Windows : chain_rows_diff("alice", OtherIndex, ChainA, w[1], w[2], TRUE)
    \/ HistTick(TickMax)

\* The two pages polled with lookback intervals that differ, while time passes.
SpecWindows == Init /\ [][NextWindows]_vars

\* The change of a contract over a lookback of `minutes`, from the series the
\* store holds now.
ChangeOver(index_name, strike, option_type, minutes) ==
    DeltaSince(Series(historical_data, index_name, get_strike_key(strike, option_type)),
               target_time_of(clock, minutes))

\* C27: every volume change a poll reports is taken over the requested
\* volume interval and every OI change over the requested OI interval, in the
\* chain rows, the opportunities table and the gamma table.
C27_ChangesOverOwnInterval ==
    /\ Done(op, "scalping_data") =>
          \A c \in op.reply.opportunities \cup op.reply.gamma :
              /\ c.vol_change # NoChange =>
                    c.vol_change[1] = ChangeOver(op.args.index_name, c.strike, c.type,
                                                 op.args.vol_interval)[1]
              /\ c.oi_change # NoChange =>
                    c.oi_change[1] = ChangeOver(op.args.index_name, c.strike, c.type,
                                                op.args.oi_interval)[2]
    /\ Done(op, "chain_rows_diff") =>
          \A i \in 1..Len(op.reply.rows.body) :
              LET row == op.reply.rows.body[i]
                  fits(cells, option_type) ==
                      /\ cells[3].kind # "-" =>
                            cells[3].value = ChangeOver(op.args.index_name, row.strike,
                                                        option_type, op.args.vol_interval)[1]
                      /\ cells[5].kind # "-" =>
                            cells[5].value = ChangeOver(op.args.index_name, row.strike,
                                                        option_type, op.args.oi_interval)[2]
              IN  fits(row.ce, "CE") /\ fits(row.pe, "PE")

----------------------------------------------------------------------------
(* Several viewers of one option chain page *)

NextViewers ==
    \/ \E u \in Users : login(u)
    \/ \E u \in Users, c \in {ChainA, NoOptions} :
          chain_rows_diff(u, HistIndex, c, 1, 1, TRUE)
    \/ HistTick(TickMax)

\* Two viewers polling the option chain page of one index.
SpecViewers == Init /\ [][NextViewers]_vars

\* C30: a viewer answered with empty rows for an index whose chain has rows
\* has been sent before, in full, rows equal to the ones the index holds now.
C30_UnchangedOnlyAfterSent ==
    (Done(op, "chain_rows_diff") /\ op.reply.rows = EmptyRows) =>
        /\ Has(previous_data, op.args.index_name)
        /\ previous_data[op.args.index_name] \in SentTo(sent, op.user, op.args.index_name)

====
